---- MODULE Spec2Model ----
(***************************************************************************)
(* A model of src/src/app/entity.ts: the Entity base class with its        *)
(* listener registry, and the composite entities built on it.              *)
(*                                                                         *)
(* JavaScript values are records [type, val, params]; a child entity is a  *)
(* record of the fields the composites read (isSetup, requestedTransition, *)
(* entityConfig).  Every public method is one action that runs the whole   *)
(* method, loops included.  The variables lastOp, calls, reports and       *)
(* thrown observe the last method call: which method it was, the           *)
(* lifecycle calls it made on children (in order), what it wrote with      *)
(* console.error, and the Error it threw.                                  *)
(*                                                                         *)
(* FrameInfo is only stored and passed on by the code modelled here; it is *)
(* kept for the entity of SpecEntity and left out of the composites.       *)
(***************************************************************************)
EXTENDS Integers, Sequences, FiniteSets, TLC

VARIABLES
  ent,        \* the Entity of SpecEntity: its fields and its eventListeners
  subs,       \* the listeners the emitters hold, in subscription order
  kids,       \* the child entities, by identity
  par,        \* a ParallelEntity
  defl,       \* a DeflatingCompositeEntity
  seq,        \* an EntitySequence
  sm,         \* a StateMachine
  alt,        \* an Alternative
  sw,         \* a SwitchingEntity
  lastOp,     \* the last method called, with its arguments
  calls,      \* the lifecycle calls the last method made on children, in order
  reports,    \* what the last method wrote with console.error, in order
  thrown,     \* the Error the last method threw, or "none"
  hist        \* setup/teardown calls on children since the EntitySequence was set up

\* the name of the method called leads, so that two states are told apart by
\* it before the arguments of different methods are compared
vars == <<lastOp.op, ent, subs, kids, par, defl, seq, sm, alt, sw, lastOp, calls, reports, thrown, hist>>

----------------------------------------------------------------------------
(* Bounds of the model *)

\* number of child entities
MaxKids == 3
\* listeners one entity registers
MaxListeners == 2
\* length of the recorded history of an EntitySequence
MaxHist == 7
\* length of a StateMachine's visitedStates
MaxVisited == 3
\* number of entities added to a SwitchingEntity
MaxSwitched == 2
\* the setup calls made on a Decision
MaxSetups == 4

----------------------------------------------------------------------------
(* JavaScript values *)

Null == [type |-> "null", val |-> "", params |-> ""]
Bool(b) == [type |-> "boolean", val |-> IF b THEN "true" ELSE "false", params |-> ""]
Str(s) == [type |-> "string", val |-> s, params |-> ""]
Obj(n, p) == [type |-> "object", val |-> n, params |-> p]

\* JavaScript truthiness, as the code's if (x.requestedTransition) tests it
Truthy(v) ==
  \/ v.type = "object"
  \/ (v.type = "boolean" /\ v.val = "true")
  \/ (v.type = "string" /\ v.val # "")

\* the method call observed in lastOp
Op(name, a, b) == [op |-> name, a |-> a, b |-> b]

RECURSIVE SelectSeqBy(_, _, _)
\* Array.prototype.filter with one of the predicates of _off
SelectSeqBy(s, field, value) ==
  IF s = <<>> THEN <<>>
  ELSE IF Head(s)[field] = value
       THEN <<Head(s)>> \o SelectSeqBy(Tail(s), field, value)
       ELSE SelectSeqBy(Tail(s), field, value)

RECURSIVE Without(_, _)
\* the elements of s that are not in the sequence gone, in order
Without(s, gone) ==
  IF s = <<>> THEN <<>>
  ELSE IF \E k \in 1..Len(gone) : gone[k] = Head(s)
       THEN Without(Tail(s), gone)
       ELSE <<Head(s)>> \o Without(Tail(s), gone)

----------------------------------------------------------------------------
(* Entity: lifecycle bookkeeping and the listener registry *)

Emitters == {"bus", "pad"}
Events == {"go", "stop"}
Callbacks == {"_handleEvent", "other"}
Frames == {1, 2}

Listener(emitter, event, cb) == [emitter |-> emitter, event |-> event, cb |-> cb]

\* the arguments _off may be called with: each may be left out
OffArgs == (Emitters \cup {"none"}) \X (Events \cup {"none"}) \X (Callbacks \cup {"none"})

\* Entity._on: record the listener, subscribe it on the emitter
EntityOn(st, emitter, event, cb) ==
  [ent |-> [st.ent EXCEPT !.eventListeners = Append(@, Listener(emitter, event, cb))],
   subs |-> Append(st.subs, Listener(emitter, event, cb))]

\* the listeners _off selects, by the arguments it was given
OffToRemove(eventListeners, emitter, event, cb) ==
  IF cb = "none"
  THEN IF event = "none"
       THEN IF emitter = "none"
            THEN eventListeners
            ELSE SelectSeqBy(eventListeners, "emitter", emitter)
       ELSE SelectSeqBy(eventListeners, "event", event)
  ELSE SelectSeqBy(eventListeners, "cb", cb)

\* EventEmitter.off(event, cb, context), once per selected listener: every
\* subscription of this entity with that emitter, event and callback goes
EmitterOff(s, toRemove) == Without(s, toRemove)

\* Entity._off
EntityOff(st, emitter, event, cb) ==
  LET toRemove == OffToRemove(st.ent.eventListeners, emitter, event, cb)
  IN [ent |-> [st.ent EXCEPT !.eventListeners = Without(@, toRemove)],
      subs |-> EmitterOff(st.subs, toRemove)]

\* a setup that leaves a pending requestedTransition in place
SetupFieldsKeepingTransition(e, frameInfo, entityConfig) ==
  [e EXCEPT !.entityConfig = entityConfig, !.lastFrameInfo = frameInfo, !.isSetup = TRUE]

\* the fields Entity.setup writes before it calls _setup
SetupFields(e, frameInfo, entityConfig) ==
  [e EXCEPT !.entityConfig = entityConfig, !.lastFrameInfo = frameInfo,
            !.isSetup = TRUE, !.requestedTransition = Null]

\* a teardown that does not release the listeners
TeardownOffSkipped(st) == st

\* the this._off() of Entity.teardown: remove all event listeners
TeardownOff(st) == EntityOff(st, "none", "none", "none")

\* a teardown that forgets to clear isSetup
TeardownFieldsKeepingSetup(e) == [e EXCEPT !.entityConfig = "null"]

\* the fields Entity.teardown writes after _teardown and _off
TeardownFields(e) == [e EXCEPT !.entityConfig = "null", !.isSetup = FALSE]

\* what a hook of the entity sees of isSetup
HookSaw(e) == IF e.isSetup THEN "isSetup" ELSE "notSetup"

\* Entity.setup, with WaitForEvent._setup as the hook
EntSetup(frameInfo) ==
  /\ Len(ent.eventListeners) < MaxListeners
  /\ LET e1 == SetupFields(ent, frameInfo, "config")
         st == EntityOn([ent |-> e1, subs |-> subs], "bus", "go", "_handleEvent")
     IN /\ ent' = [st.ent EXCEPT !.phase = "setup"]
        /\ subs' = st.subs
        /\ reports' = IF ent.isSetup THEN <<"setup() called twice">> ELSE <<>>
        /\ lastOp' = Op("setup", HookSaw(e1), "")
  /\ calls' = <<>>
  /\ thrown' = "none"
  /\ UNCHANGED <<kids, par, defl, seq, sm, alt, sw, hist>>

\* Entity.update; the hook _update does nothing here
EntUpdate(frameInfo) ==
  /\ ent' = [ent EXCEPT !.lastFrameInfo = frameInfo]
  /\ reports' = IF ~ent.isSetup THEN <<"update() called before setup()">> ELSE <<>>
  /\ lastOp' = Op("update", HookSaw(ent), "")
  /\ calls' = <<>>
  /\ thrown' = "none"
  /\ UNCHANGED <<subs, kids, par, defl, seq, sm, alt, sw, hist>>

\* what a _teardown hook may do about its listeners: nothing, or one _off call
HookOffs == {<<>>, <<"bus", "none", "none">>, <<"none", "go", "none">>, <<"none", "none", "other">>}

\* Entity.teardown; the hook _teardown may itself call _off once (hookOff).
\* lastOp.b is the number of listeners the hook left registered
EntTeardown(frameInfo, hookOff) ==
  /\ LET e1 == [ent EXCEPT !.lastFrameInfo = frameInfo]
         st1 == IF hookOff = <<>>
                THEN [ent |-> e1, subs |-> subs]
                ELSE EntityOff([ent |-> e1, subs |-> subs], hookOff[1], hookOff[2], hookOff[3])
         st2 == TeardownOff(st1)
     IN /\ ent' = [TeardownFields(st2.ent) EXCEPT !.phase = "teardown"]
        /\ subs' = st2.subs
        /\ lastOp' = Op("teardown", HookSaw(e1), Len(st1.ent.eventListeners))
  /\ reports' = IF ~ent.isSetup THEN <<"teardown() called before setup()">> ELSE <<>>
  /\ calls' = <<>>
  /\ thrown' = "none"
  /\ UNCHANGED <<kids, par, defl, seq, sm, alt, sw, hist>>

\* Entity.onSignal; the hook _onSignal does nothing here
EntOnSignal(frameInfo) ==
  /\ ent' = [ent EXCEPT !.lastFrameInfo = frameInfo]
  /\ reports' = IF ent.entityConfig = "null" THEN <<"onSignal() called before setup()">> ELSE <<>>
  /\ lastOp' = Op("onSignal", "", "")
  /\ calls' = <<>>
  /\ thrown' = "none"
  /\ UNCHANGED <<subs, kids, par, defl, seq, sm, alt, sw, hist>>

\* the entity's own code calls _on
EntOn(emitter, event, cb) ==
  /\ Len(ent.eventListeners) < MaxListeners
  /\ LET st == EntityOn([ent |-> ent, subs |-> subs], emitter, event, cb)
     IN ent' = st.ent /\ subs' = st.subs
  /\ lastOp' = Op("_on", "", "")
  /\ calls' = <<>>
  /\ reports' = <<>>
  /\ thrown' = "none"
  /\ UNCHANGED <<kids, par, defl, seq, sm, alt, sw, hist>>

\* the entity's own code calls _off
EntOff(args) ==
  /\ LET st == EntityOff([ent |-> ent, subs |-> subs], args[1], args[2], args[3])
     IN ent' = st.ent /\ subs' = st.subs
  /\ lastOp' = Op("_off", args, "")
  /\ calls' = <<>>
  /\ reports' = <<>>
  /\ thrown' = "none"
  /\ UNCHANGED <<kids, par, defl, seq, sm, alt, sw, hist>>

\* WaitForEvent._handleEvent, for each subscription that is this callback
HandleEvent(e, delivered, handlerResult) ==
  IF \E k \in 1..Len(delivered) : delivered[k].cb = "_handleEvent"
  THEN [e EXCEPT !.requestedTransition = Bool(handlerResult)]
  ELSE e

\* an emitter fires an event: the callbacks subscribed to it run, in order
EntEmit(emitter, event, handlerResult) ==
  /\ LET delivered == SelectSeqBy(SelectSeqBy(subs, "emitter", emitter), "event", event)
     IN /\ ent' = HandleEvent(ent, delivered, handlerResult)
        /\ calls' = delivered
  /\ lastOp' = Op("emit", emitter, event)
  /\ reports' = <<>>
  /\ thrown' = "none"
  /\ UNCHANGED <<subs, kids, par, defl, seq, sm, alt, sw, hist>>

\* the entity as its constructor leaves it; phase names the last of setup and
\* teardown that was called on it
EntInit ==
  [isSetup |-> FALSE, requestedTransition |-> Null, entityConfig |-> "null",
   lastFrameInfo |-> 0, eventListeners |-> <<>>, phase |-> "created"]

InitEntity ==
  /\ ent = EntInit
  /\ subs = <<>>
  /\ kids = <<>> /\ par = <<>> /\ defl = <<>> /\ seq = <<>> /\ sm = <<>>
  /\ alt = <<>> /\ sw = <<>> /\ hist = <<>>
  /\ lastOp = Op("new", "", "")
  /\ calls = <<>> /\ reports = <<>> /\ thrown = "none"

NextEntity ==
  \/ \E f \in Frames : EntSetup(f)
  \/ \E f \in Frames : EntUpdate(f)
  \/ \E f \in Frames, hookOff \in HookOffs : EntTeardown(f, hookOff)
  \/ \E f \in Frames : EntOnSignal(f)
  \/ \E em \in Emitters, ev \in Events, cb \in Callbacks : EntOn(em, ev, cb)
  \/ \E args \in OffArgs : EntOff(args)
  \/ \E em \in Emitters, ev \in Events, h \in BOOLEAN : EntEmit(em, ev, h)

SpecEntity == InitEntity /\ [][NextEntity]_vars

----------------------------------------------------------------------------
(* Child entities *)

KidIds == 1..MaxKids

\* a child's _update leaves requestedTransition alone
Keep == [type |-> "keep", val |-> "", params |-> ""]

\* the class of child i: every third one is a TransitoryEntity, the others
\* complete when their _update or Block.done says so
KindOf(i) == IF i % 3 = 0 THEN "transitory" ELSE "plain"

\* the config override child i is added with, one per branch of processEntityConfig
OverrideOf(i) == IF i % 3 = 1 THEN "null" ELSE IF i % 3 = 2 THEN "extend" ELSE "other"

\* processEntityConfig: no override, a function of the config (extendConfig), or a replacement
ProcessEntityConfig(entityConfig, alteredConfig) ==
  IF alteredConfig = "null" THEN entityConfig
  ELSE IF alteredConfig = "extend" THEN entityConfig \o "+ext"
  ELSE alteredConfig

KidInit == [isSetup |-> FALSE, requestedTransition |-> Null, entityConfig |-> "null"]

\* the children and what the running method has done so far
W0 == [kids |-> kids, calls |-> <<>>, reports |-> <<>>]

Report(w, cond, msg) == IF cond THEN [w EXCEPT !.reports = Append(@, msg)] ELSE w

\* Entity.setup on child i, with TransitoryEntity._setup as the hook of a transitory child
KidSetup(w, i, entityConfig) ==
  LET w1 == Report(w, w.kids[i].isSetup, "setup() called twice")
  IN [w1 EXCEPT !.kids[i] = [isSetup |-> TRUE,
                             requestedTransition |-> IF KindOf(i) = "transitory" THEN Bool(TRUE) ELSE Null,
                             entityConfig |-> entityConfig],
                !.calls = Append(@, <<"setup", i>>)]

\* Entity.update on child i; its _update requests outcome, or nothing (Keep)
KidUpdate(w, i, outcome) ==
  LET w1 == Report(w, ~w.kids[i].isSetup, "update() called before setup()")
  IN [w1 EXCEPT !.kids[i].requestedTransition = IF outcome = Keep THEN @ ELSE outcome,
                !.calls = Append(@, <<"update", i>>)]

\* Entity.teardown on child i
KidTeardown(w, i) ==
  LET w1 == Report(w, ~w.kids[i].isSetup, "teardown() called before setup()")
  IN [w1 EXCEPT !.kids[i].entityConfig = "null",
                !.kids[i].isSetup = FALSE,
                !.calls = Append(@, <<"teardown", i>>)]

\* Entity.onSignal on child i
KidOnSignal(w, i) ==
  LET w1 == Report(w, w.kids[i].entityConfig = "null", "onSignal() called before setup()")
  IN [w1 EXCEPT !.calls = Append(@, <<"onSignal", i>>)]

\* Block.done(): child i is told to complete, between two frames
KidDone(i) ==
  /\ i \in DOMAIN kids
  /\ KindOf(i) = "plain"
  /\ ~Truthy(kids[i].requestedTransition)
  /\ kids' = [kids EXCEPT ![i].requestedTransition = Bool(TRUE)]
  /\ lastOp' = Op("done", i, "")
  /\ calls' = <<>> /\ reports' = <<>> /\ thrown' = "none"
  /\ UNCHANGED <<ent, subs, par, defl, seq, sm, alt, sw, hist>>

\* what the _update of the children may request in one frame
UpdateOutcomes == [KidIds -> {Keep, Bool(TRUE)}]

\* Array.prototype.indexOf, 1-based; 0 when absent
IndexOf(s, x) == IF \E k \in 1..Len(s) : s[k] = x
                 THEN CHOOSE k \in 1..Len(s) : s[k] = x /\ \A j \in 1..(k-1) : s[j] # x
                 ELSE 0

\* Array.prototype.splice(index, 1), 1-based
Splice(s, k) == SubSeq(s, 1, k-1) \o SubSeq(s, k+1, Len(s))

\* the fields Entity.teardown clears, on a composite
BaseTeardown(e) == [e EXCEPT !.entityConfig = "null", !.isSetup = FALSE]

\* the fields Entity.setup writes, on a composite
BaseSetup(e, entityConfig) ==
  [e EXCEPT !.entityConfig = entityConfig, !.isSetup = TRUE, !.requestedTransition = Null]

----------------------------------------------------------------------------
(* ParallelEntity *)

ParInit(autoTransition) ==
  [isSetup |-> FALSE, requestedTransition |-> Null, entityConfig |-> "null",
   autoTransition |-> autoTransition,
   entities |-> <<>>, entityConfigs |-> <<>>, entityIsActive |-> <<>>]

RECURSIVE ParSetupLoop(_, _, _)
\* the loop of ParallelEntity.setup, from index i
ParSetupLoop(w, p, i) ==
  IF i > Len(p.entities) THEN [w |-> w, p |-> p]
  ELSE LET id == p.entities[i]
           w1 == IF ~w.kids[id].isSetup
                 THEN KidSetup(w, id, ProcessEntityConfig(p.entityConfig, p.entityConfigs[i]))
                 ELSE w
       IN ParSetupLoop(w1, [p EXCEPT !.entityIsActive[i] = TRUE], i + 1)

RECURSIVE ParUpdateLoop(_, _, _, _)
\* the loop of ParallelEntity.update, from index i
ParUpdateLoop(w, p, outcomes, i) ==
  IF i > Len(p.entities) THEN [w |-> w, p |-> p]
  ELSE IF p.entityIsActive[i]
  THEN LET id == p.entities[i]
           w1 == KidUpdate(w, id, outcomes[id])
       IN IF Truthy(w1.kids[id].requestedTransition)
          THEN ParUpdateLoop(KidTeardown(w1, id), [p EXCEPT !.entityIsActive[i] = FALSE], outcomes, i + 1)
          ELSE ParUpdateLoop(w1, p, outcomes, i + 1)
  ELSE ParUpdateLoop(w, p, outcomes, i + 1)

\* an autoTransition that fires as soon as one child is done
ParAutoCompletesOnAnyDone(p) ==
  p.autoTransition /\ \E k \in 1..Len(p.entityIsActive) : ~p.entityIsActive[k]

\* this.autoTransition && !this.entityIsActive.some((e) => !!e)
ParAutoCompletes(p) ==
  p.autoTransition /\ ~ \E k \in 1..Len(p.entityIsActive) : p.entityIsActive[k]

RECURSIVE ParTeardownLoop(_, _, _)
\* the loop of ParallelEntity.teardown, from index i
ParTeardownLoop(w, p, i) ==
  IF i > Len(p.entities) THEN [w |-> w, p |-> p]
  ELSE IF p.entityIsActive[i]
  THEN ParTeardownLoop(KidTeardown(w, p.entities[i]), [p EXCEPT !.entityIsActive[i] = FALSE], i + 1)
  ELSE ParTeardownLoop(w, p, i + 1)

RECURSIVE ParSignalLoop(_, _, _)
\* the loop of ParallelEntity.onSignal, from index i
ParSignalLoop(w, p, i) ==
  IF i > Len(p.entities) THEN w
  ELSE IF p.entityIsActive[i]
  THEN ParSignalLoop(KidOnSignal(w, p.entities[i]), p, i + 1)
  ELSE ParSignalLoop(w, p, i + 1)

\* a removeAllEntities that discards the children without tearing them down
DiscardWithoutTeardown(w, entities, i) == w

RECURSIVE TeardownAllSetUp(_, _, _)
\* the loop of removeAllEntities: tear down each child that is set up
TeardownAllSetUp(w, entities, i) ==
  IF i > Len(entities) THEN w
  ELSE IF w.kids[entities[i]].isSetup
  THEN TeardownAllSetUp(KidTeardown(w, entities[i]), entities, i + 1)
  ELSE TeardownAllSetUp(w, entities, i + 1)

\* what every method of the ParallelEntity leaves alone
ParFrame == UNCHANGED <<ent, subs, defl, seq, sm, alt, sw, hist>>

ParSetup ==
  /\ LET w1 == Report(W0, par.isSetup, "setup() called twice")
         r == ParSetupLoop(w1, BaseSetup(par, "config"), 1)
     IN /\ par' = r.p
        /\ kids' = r.w.kids /\ calls' = r.w.calls /\ reports' = r.w.reports
  /\ lastOp' = Op("par.setup", "", "")
  /\ thrown' = "none"
  /\ ParFrame

\* update(frameInfo); outcomes says what the _update of each updated child requests
ParUpdate(outcomes) ==
  /\ \A id \in KidIds : ~(\E k \in 1..Len(par.entities) : par.entities[k] = id /\ par.entityIsActive[k])
                          => outcomes[id] = Keep
  /\ LET w1 == Report(W0, ~par.isSetup, "update() called before setup()")
         r == ParUpdateLoop(w1, par, outcomes, 1)
     IN /\ par' = IF ParAutoCompletes(r.p)
                  THEN [r.p EXCEPT !.requestedTransition = Bool(TRUE)]
                  ELSE r.p
        /\ kids' = r.w.kids /\ calls' = r.w.calls /\ reports' = r.w.reports
  /\ lastOp' = Op("par.update", "", "")
  /\ thrown' = "none"
  /\ ParFrame

ParTeardown ==
  /\ LET r == ParTeardownLoop(W0, par, 1)
         w1 == Report(r.w, ~par.isSetup, "teardown() called before setup()")
     IN /\ par' = BaseTeardown(r.p)
        /\ kids' = w1.kids /\ calls' = w1.calls /\ reports' = w1.reports
  /\ lastOp' = Op("par.teardown", "", "")
  /\ thrown' = "none"
  /\ ParFrame

ParOnSignal ==
  /\ LET w1 == Report(W0, par.entityConfig = "null", "onSignal() called before setup()")
         w2 == ParSignalLoop(w1, par, 1)
     IN kids' = w2.kids /\ calls' = w2.calls /\ reports' = w2.reports
  /\ lastOp' = Op("par.onSignal", "", "")
  /\ thrown' = "none"
  /\ UNCHANGED par
  /\ ParFrame

\* addEntity(entity, entityConfig), with a child that is not in the list (the
\* lowest-numbered one)
ParAddEntity(id) ==
  /\ IndexOf(par.entities, id) = 0
  /\ \A j \in KidIds : j < id => IndexOf(par.entities, j) # 0
  /\ par' = [par EXCEPT !.entities = Append(@, id),
                        !.entityConfigs = Append(@, OverrideOf(id)),
                        !.entityIsActive = Append(@, TRUE)]
  /\ LET w1 == IF par.isSetup /\ ~kids[id].isSetup
               THEN KidSetup(W0, id, ProcessEntityConfig(par.entityConfig, OverrideOf(id)))
               ELSE W0
     IN kids' = w1.kids /\ calls' = w1.calls /\ reports' = w1.reports
  /\ lastOp' = Op("par.addEntity", id, "")
  /\ thrown' = "none"
  /\ ParFrame

ParRemoveEntity(id) ==
  /\ LET index == IndexOf(par.entities, id)
     IN IF index = 0
        THEN /\ thrown' = "Cannot find entity to remove"
             /\ calls' = <<>> /\ reports' = <<>>
             /\ UNCHANGED <<par, kids>>
        ELSE /\ LET w1 == IF kids[id].isSetup THEN KidTeardown(W0, id) ELSE W0
                IN kids' = w1.kids /\ calls' = w1.calls /\ reports' = w1.reports
             /\ par' = [par EXCEPT !.entities = Splice(@, index),
                                   !.entityConfigs = Splice(@, index),
                                   !.entityIsActive = Splice(@, index)]
             /\ thrown' = "none"
  /\ lastOp' = Op("par.removeEntity", id, "")
  /\ ParFrame

ParRemoveAllEntities ==
  /\ LET w1 == TeardownAllSetUp(W0, par.entities, 1)
     IN kids' = w1.kids /\ calls' = w1.calls /\ reports' = w1.reports
  /\ par' = IF par.entities = <<>> THEN par
            ELSE [par EXCEPT !.entities = <<>>, !.entityConfigs = <<>>, !.entityIsActive = <<>>]
  /\ lastOp' = Op("par.removeAllEntities", "", "")
  /\ thrown' = "none"
  /\ ParFrame

InitParallel ==
  /\ \E a \in BOOLEAN : par = ParInit(a)
  /\ kids = [i \in KidIds |-> KidInit]
  /\ ent = <<>> /\ subs = <<>> /\ defl = <<>> /\ seq = <<>> /\ sm = <<>>
  /\ alt = <<>> /\ sw = <<>> /\ hist = <<>>
  /\ lastOp = Op("new", "", "")
  /\ calls = <<>> /\ reports = <<>> /\ thrown = "none"

NextParallel ==
  \/ ParSetup
  \/ \E o \in UpdateOutcomes : ParUpdate(o)
  \/ ParTeardown
  \/ ParOnSignal
  \/ \E id \in KidIds : ParAddEntity(id)
  \/ \E id \in KidIds : ParRemoveEntity(id)
  \/ ParRemoveAllEntities
  \/ \E id \in KidIds : KidDone(id)

SpecParallel == InitParallel /\ [][NextParallel]_vars

----------------------------------------------------------------------------
(* DeflatingCompositeEntity *)

DeflInit(autoTransition) ==
  [isSetup |-> FALSE, requestedTransition |-> Null, entityConfig |-> "null",
   autoTransition |-> autoTransition, entities |-> <<>>]

RECURSIVE DeflSetupLoop(_, _, _)
\* the loop of DeflatingCompositeEntity.setup, from index i
DeflSetupLoop(w, d, i) ==
  IF i > Len(d.entities) THEN w
  ELSE IF ~w.kids[d.entities[i]].isSetup
  THEN DeflSetupLoop(KidSetup(w, d.entities[i], d.entityConfig), d, i + 1)
  ELSE DeflSetupLoop(w, d, i + 1)

RECURSIVE DeflUpdateLoopSkipping(_, _, _, _)
\* a loop that moves on after a splice, and so skips the child that slid into place
DeflUpdateLoopSkipping(w, d, outcomes, i) ==
  IF i > Len(d.entities) THEN [w |-> w, d |-> d]
  ELSE LET id == d.entities[i]
           w1 == KidUpdate(w, id, outcomes[id])
       IN IF Truthy(w1.kids[id].requestedTransition)
          THEN DeflUpdateLoopSkipping(IF w1.kids[id].isSetup THEN KidTeardown(w1, id) ELSE w1,
                                      [d EXCEPT !.entities = Splice(@, i)], outcomes, i + 1)
          ELSE DeflUpdateLoopSkipping(w1, d, outcomes, i + 1)

RECURSIVE DeflUpdateLoop(_, _, _, _)
\* the loop of DeflatingCompositeEntity.update, from index i
DeflUpdateLoop(w, d, outcomes, i) ==
  IF i > Len(d.entities) THEN [w |-> w, d |-> d]
  ELSE LET id == d.entities[i]
           w1 == KidUpdate(w, id, outcomes[id])
       IN IF Truthy(w1.kids[id].requestedTransition)
          THEN DeflUpdateLoop(IF w1.kids[id].isSetup THEN KidTeardown(w1, id) ELSE w1,
                              [d EXCEPT !.entities = Splice(@, i)], outcomes, i)
          ELSE DeflUpdateLoop(w1, d, outcomes, i + 1)

\* this.autoTransition && this.entities.length == 0
DeflAutoCompletes(d) == d.autoTransition /\ Len(d.entities) = 0

RECURSIVE DeflTeardownLoop(_, _, _)
\* the loop of DeflatingCompositeEntity.teardown, from index i
DeflTeardownLoop(w, d, i) ==
  IF i > Len(d.entities) THEN w
  ELSE DeflTeardownLoop(KidTeardown(w, d.entities[i]), d, i + 1)

RECURSIVE DeflSignalLoop(_, _, _)
\* the loop of DeflatingCompositeEntity.onSignal, from index i
DeflSignalLoop(w, d, i) ==
  IF i > Len(d.entities) THEN w
  ELSE DeflSignalLoop(KidOnSignal(w, d.entities[i]), d, i + 1)

\* what every method of the DeflatingCompositeEntity leaves alone
DeflFrame == UNCHANGED <<ent, subs, par, seq, sm, alt, sw, hist>>

DeflSetup ==
  /\ LET w1 == Report(W0, defl.isSetup, "setup() called twice")
         d1 == BaseSetup(defl, "config")
         w2 == DeflSetupLoop(w1, d1, 1)
     IN /\ defl' = d1
        /\ kids' = w2.kids /\ calls' = w2.calls /\ reports' = w2.reports
  /\ lastOp' = Op("defl.setup", "", "")
  /\ thrown' = "none"
  /\ DeflFrame

\* update(frameInfo); outcomes says what the _update of each listed child requests
DeflUpdate(outcomes) ==
  /\ \A id \in KidIds : IndexOf(defl.entities, id) = 0 => outcomes[id] = Keep
  /\ LET w1 == Report(W0, ~defl.isSetup, "update() called before setup()")
         r == DeflUpdateLoop(w1, defl, outcomes, 1)
     IN /\ defl' = IF DeflAutoCompletes(r.d)
                   THEN [r.d EXCEPT !.requestedTransition = Bool(TRUE)]
                   ELSE r.d
        /\ kids' = r.w.kids /\ calls' = r.w.calls /\ reports' = r.w.reports
  /\ lastOp' = Op("defl.update", "", "")
  /\ thrown' = "none"
  /\ DeflFrame

DeflTeardown ==
  /\ LET w1 == DeflTeardownLoop(W0, defl, 1)
         w2 == Report(w1, ~defl.isSetup, "teardown() called before setup()")
     IN kids' = w2.kids /\ calls' = w2.calls /\ reports' = w2.reports
  /\ defl' = BaseTeardown(defl)
  /\ lastOp' = Op("defl.teardown", "", "")
  /\ thrown' = "none"
  /\ DeflFrame

DeflOnSignal ==
  /\ LET w1 == Report(W0, defl.entityConfig = "null", "onSignal() called before setup()")
         w2 == DeflSignalLoop(w1, defl, 1)
     IN kids' = w2.kids /\ calls' = w2.calls /\ reports' = w2.reports
  /\ lastOp' = Op("defl.onSignal", "", "")
  /\ thrown' = "none"
  /\ UNCHANGED defl
  /\ DeflFrame

\* addEntity(entity), with a child that is not in the list
DeflAddEntity(id) ==
  /\ IndexOf(defl.entities, id) = 0
  /\ LET w1 == IF defl.isSetup /\ ~kids[id].isSetup
               THEN KidSetup(W0, id, defl.entityConfig)
               ELSE W0
     IN kids' = w1.kids /\ calls' = w1.calls /\ reports' = w1.reports
  /\ defl' = [defl EXCEPT !.entities = Append(@, id)]
  /\ lastOp' = Op("defl.addEntity", id, "")
  /\ thrown' = "none"
  /\ DeflFrame

DeflRemoveEntity(id) ==
  /\ LET index == IndexOf(defl.entities, id)
     IN IF index = 0
        THEN /\ thrown' = "Cannot find entity to remove"
             /\ calls' = <<>> /\ reports' = <<>>
             /\ UNCHANGED <<defl, kids>>
        ELSE /\ LET w1 == IF kids[id].isSetup THEN KidTeardown(W0, id) ELSE W0
                IN kids' = w1.kids /\ calls' = w1.calls /\ reports' = w1.reports
             /\ defl' = [defl EXCEPT !.entities = Splice(@, index)]
             /\ thrown' = "none"
  /\ lastOp' = Op("defl.removeEntity", id, "")
  /\ DeflFrame

InitDeflating ==
  /\ \E a \in BOOLEAN : defl = DeflInit(a)
  /\ kids = [i \in KidIds |-> KidInit]
  /\ ent = <<>> /\ subs = <<>> /\ par = <<>> /\ seq = <<>> /\ sm = <<>>
  /\ alt = <<>> /\ sw = <<>> /\ hist = <<>>
  /\ lastOp = Op("new", "", "")
  /\ calls = <<>> /\ reports = <<>> /\ thrown = "none"

NextDeflating ==
  \/ DeflSetup
  \/ \E o \in UpdateOutcomes : DeflUpdate(o)
  \/ DeflTeardown
  \/ DeflOnSignal
  \/ \E id \in KidIds : DeflAddEntity(id)
  \/ \E id \in KidIds : DeflRemoveEntity(id)
  \/ \E id \in KidIds : KidDone(id)

SpecDeflating == InitDeflating /\ [][NextDeflating]_vars

----------------------------------------------------------------------------
(* EntitySequence *)

\* currentEntityIndex is 0-based as in the code; currentEntity is a child, or 0 for null
SeqInit(n, loop) ==
  [isSetup |-> FALSE, requestedTransition |-> Null, entityConfig |-> "null",
   loop |-> loop, entities |-> [k \in 1..n |-> k],
   currentEntityIndex |-> 0, currentEntity |-> 0]

\* _activateEntity
SeqActivateEntity(r) ==
  LET id == r.s.entities[r.s.currentEntityIndex + 1]
  IN [w |-> KidSetup(r.w, id, r.s.entityConfig),
      s |-> [r.s EXCEPT !.currentEntity = id]]

\* _deactivateEntity
SeqDeactivateEntity(r) ==
  IF r.s.currentEntity # 0 /\ r.w.kids[r.s.currentEntity].isSetup
  THEN [r EXCEPT !.w = KidTeardown(r.w, r.s.currentEntity)]
  ELSE r

\* an _advance without the loop branch
SeqAdvanceNeverLooping(r, transition) ==
  IF r.s.currentEntityIndex < Len(r.s.entities) - 1
  THEN LET r1 == SeqDeactivateEntity(r)
       IN SeqActivateEntity([r1 EXCEPT !.s.currentEntityIndex = @ + 1])
  ELSE LET r1 == SeqDeactivateEntity(r)
       IN [r1 EXCEPT !.s.requestedTransition = transition]

\* an _advance that completes with true, whatever the last child requested
SeqAdvanceCompletingWithTrue(r, transition) ==
  IF r.s.currentEntityIndex < Len(r.s.entities) - 1
  THEN LET r1 == SeqDeactivateEntity(r)
       IN SeqActivateEntity([r1 EXCEPT !.s.currentEntityIndex = @ + 1])
  ELSE IF r.s.loop
  THEN LET r1 == SeqDeactivateEntity(r)
       IN SeqActivateEntity([r1 EXCEPT !.s.currentEntityIndex = 0])
  ELSE LET r1 == SeqDeactivateEntity(r)
       IN [r1 EXCEPT !.s.requestedTransition = Bool(TRUE)]

\* _advance(transition)
SeqAdvance(r, transition) ==
  IF r.s.currentEntityIndex < Len(r.s.entities) - 1
  THEN LET r1 == SeqDeactivateEntity(r)
       IN SeqActivateEntity([r1 EXCEPT !.s.currentEntityIndex = @ + 1])
  ELSE IF r.s.loop
  THEN LET r1 == SeqDeactivateEntity(r)
       IN SeqActivateEntity([r1 EXCEPT !.s.currentEntityIndex = 0])
  ELSE LET r1 == SeqDeactivateEntity(r)
       IN [r1 EXCEPT !.s.requestedTransition = transition]

\* a restart that leaves the current child set up
SeqRestartBodyKeepingCurrent(r) ==
  SeqActivateEntity([r EXCEPT !.s.currentEntityIndex = 0,
                              !.s.requestedTransition = Bool(FALSE)])

\* a restart that leaves a pending completion in place
SeqRestartBodyKeepingCompletion(r) ==
  LET r1 == SeqDeactivateEntity(r)
  IN SeqActivateEntity([r1 EXCEPT !.s.currentEntityIndex = 0])

\* restart()
SeqRestartBody(r) ==
  LET r1 == SeqDeactivateEntity(r)
  IN SeqActivateEntity([r1 EXCEPT !.s.currentEntityIndex = 0,
                                  !.s.requestedTransition = Bool(FALSE)])

RECURSIVE SetupsAndTeardowns(_)
\* the setup and teardown calls among the calls c
SetupsAndTeardowns(c) ==
  IF c = <<>> THEN <<>>
  ELSE IF Head(c)[1] \in {"setup", "teardown"}
       THEN <<Head(c)>> \o SetupsAndTeardowns(Tail(c))
       ELSE SetupsAndTeardowns(Tail(c))

\* the sequence's history goes on: the calls of this method, and whether the run
\* is still one of update calls only
HistAfter(c, plain) ==
  [calls |-> hist.calls \o SetupsAndTeardowns(c), plain |-> hist.plain /\ plain]

\* the recorded history has room for the calls of one more method
HistRoom == Len(hist.calls) + 2 <= MaxHist

\* what the _update of the current child may request in one frame
SeqOutcomes == {Keep, Bool(TRUE), Str("next")}

\* what every method of the EntitySequence leaves alone
SeqFrame == UNCHANGED <<ent, subs, par, defl, sm, alt, sw>>

SeqDone(r, op, err, plain) ==
  /\ seq' = r.s
  /\ kids' = r.w.kids /\ calls' = r.w.calls /\ reports' = r.w.reports
  /\ hist' = HistAfter(r.w.calls, plain)
  /\ lastOp' = op
  /\ thrown' = err
  /\ SeqFrame

SeqSetup ==
  /\ LET w1 == Report(W0, seq.isSetup, "setup() called twice")
         s1 == [BaseSetup(seq, "config") EXCEPT !.currentEntityIndex = 0, !.currentEntity = 0]
         r == SeqActivateEntity([w |-> w1, s |-> s1])
     IN /\ seq' = r.s
        /\ kids' = r.w.kids /\ calls' = r.w.calls /\ reports' = r.w.reports
        /\ hist' = [calls |-> SetupsAndTeardowns(r.w.calls),
                    plain |-> ~seq.isSetup /\ \A id \in KidIds : ~kids[id].isSetup]
  /\ lastOp' = Op("seq.setup", "", "")
  /\ thrown' = "none"
  /\ SeqFrame

\* update(frameInfo); outcome is what the _update of the current child requests.
\* lastOp.a is the transition the update read from the current child
SeqUpdate(outcome) ==
  /\ HistRoom
  /\ LET w1 == Report(W0, ~seq.isSetup, "update() called before setup()")
     IN IF seq.currentEntityIndex >= Len(seq.entities)
        THEN SeqDone([w |-> w1, s |-> seq], Op("seq.update", Null, ""), "none", TRUE)
        ELSE IF seq.currentEntity = 0
        THEN SeqDone([w |-> w1, s |-> seq], Op("seq.update", Null, ""), "TypeError", FALSE)
        ELSE LET w2 == KidUpdate(w1, seq.currentEntity, outcome)
                 transition == w2.kids[seq.currentEntity].requestedTransition
                 r == [w |-> w2, s |-> seq]
             IN SeqDone(IF Truthy(transition) THEN SeqAdvance(r, transition) ELSE r,
                        Op("seq.update", transition, ""), "none", seq.isSetup)

SeqTeardown ==
  /\ HistRoom
  /\ LET r == SeqDeactivateEntity([w |-> W0, s |-> seq])
         w1 == Report(r.w, ~seq.isSetup, "teardown() called before setup()")
     IN SeqDone([w |-> w1, s |-> BaseTeardown(r.s)], Op("seq.teardown", "", ""), "none", seq.isSetup)

\* onSignal(frameInfo, signal): "reset" restarts the sequence
SeqOnSignal(signal) ==
  /\ HistRoom
  /\ IF Truthy(seq.requestedTransition)
     THEN SeqDone([w |-> W0, s |-> seq], Op("seq.onSignal", signal, ""), "none", TRUE)
     ELSE LET w1 == Report(W0, seq.entityConfig = "null", "onSignal() called before setup()")
          IN IF seq.currentEntity = 0
             THEN SeqDone([w |-> w1, s |-> seq], Op("seq.onSignal", signal, ""), "TypeError", FALSE)
             ELSE LET r == [w |-> KidOnSignal(w1, seq.currentEntity), s |-> seq]
                  IN SeqDone(IF signal = "reset" THEN SeqRestartBody(r) ELSE r,
                             Op("seq.onSignal", signal, ""), "none", signal # "reset")

SeqRestart ==
  /\ HistRoom
  /\ SeqDone(SeqRestartBody([w |-> W0, s |-> seq]), Op("seq.restart", "", ""), "none", FALSE)

\* a skip that completes with what the current child requested
SeqSkipPassingChildTransition ==
  /\ HistRoom
  /\ IF Truthy(seq.requestedTransition)
     THEN SeqDone([w |-> W0, s |-> seq], Op("seq.skip", "", ""), "none", FALSE)
     ELSE SeqDone(SeqAdvance([w |-> W0, s |-> seq],
                             IF seq.currentEntity = 0 THEN Null
                             ELSE kids[seq.currentEntity].requestedTransition),
                  Op("seq.skip", "", ""), "none", FALSE)

\* skip()
SeqSkip ==
  /\ HistRoom
  /\ IF Truthy(seq.requestedTransition)
     THEN SeqDone([w |-> W0, s |-> seq], Op("seq.skip", "", ""), "none", FALSE)
     ELSE SeqDone(SeqAdvance([w |-> W0, s |-> seq], Obj("skip", "")),
                  Op("seq.skip", "", ""), "none", FALSE)

\* addEntity(entity), with the lowest-numbered child that is not in the list
SeqAddEntity ==
  /\ Len(seq.entities) < MaxKids
  /\ SeqDone([w |-> W0,
              s |-> IF Truthy(seq.requestedTransition) THEN seq
                    ELSE [seq EXCEPT !.entities = Append(@, Len(@) + 1)]],
             Op("seq.addEntity", "", ""), "none", FALSE)

InitSequence ==
  /\ \E n \in 1..MaxKids, l \in BOOLEAN : seq = SeqInit(n, l)
  /\ kids = [i \in KidIds |-> KidInit]
  /\ hist = [calls |-> <<>>, plain |-> FALSE]
  /\ ent = <<>> /\ subs = <<>> /\ par = <<>> /\ defl = <<>> /\ sm = <<>>
  /\ alt = <<>> /\ sw = <<>>
  /\ lastOp = Op("new", "", "")
  /\ calls = <<>> /\ reports = <<>> /\ thrown = "none"

NextSequence ==
  \/ SeqSetup
  \/ \E o \in SeqOutcomes : SeqUpdate(o)
  \/ SeqTeardown
  \/ \E sig \in {"reset", "pause"} : SeqOnSignal(sig)
  \/ SeqRestart
  \/ SeqSkip
  \/ SeqAddEntity
  \/ \E id \in KidIds : KidDone(id)

SpecSequence == InitSequence /\ [][NextSequence]_vars

----------------------------------------------------------------------------
(* StateMachine and makeTransitionTable *)

\* the states map of the machine modelled: state name -> its entity.  "flash" is
\* a TransitoryEntity; "end" is an entry under the name of an ending state
SMStates == [start |-> 1, middle |-> 2, flash |-> 3, end |-> 4]

SMKidIds == {SMStates[n] : n \in DOMAIN SMStates}

SMEndingStates == {"end", "quit"}

\* the flat map given to makeTransitionTable for state "start"
StartTable ==
  [win |-> Str("middle"), jump |-> Obj("flash", "p2"), finish |-> Str("end"),
   quit |-> Str("quit"), lost |-> Str("nowhere"), odd |-> Bool(TRUE)]

\* the flat map given to makeTransitionTable for state "middle"
MiddleTable == [finish |-> Str("end"), back |-> Str("start")]

FromTable(t) == [kind |-> "function", to |-> "", table |-> t]
FromString(n) == [kind |-> "string", to |-> n, table |-> <<>>]
RawObject == [kind |-> "object", to |-> "", table |-> <<>>]

\* the transitions the machine may be built with: "start" has a table, "flash"
\* has no entry, "middle" has a table, a state name or an object that is neither
SMTransitionTables ==
  { [start |-> FromTable(StartTable), middle |-> m] :
      m \in {FromTable(MiddleTable), FromString("end"), RawObject} }

SMInit(transitions, startingState) ==
  [isSetup |-> FALSE, requestedTransition |-> Null, entityConfig |-> "null",
   transitions |-> transitions, startingState |-> startingState,
   state |-> 0, stateName |-> "undefined", stateParams |-> "undefined",
   visitedStates |-> <<>>]

\* what the _update of the active state's entity may request in one frame
SMOutcomes ==
  {Keep, Str("win"), Str("finish"), Str("quit"), Str("jump"), Str("lost"), Str("odd"),
   Str("back"), Str("bogus"), Str("middle"), Str("end"), Obj("win", "p1")}

Threw(msg) == [err |-> msg, desc |-> Null, name |-> "", params |-> ""]

\* the function makeTransitionTable returns, called with a transition name
TransitionTableCall(table, requestedTransitionName) ==
  IF requestedTransitionName.type = "string" /\ requestedTransitionName.val \in DOMAIN table
  THEN [Threw("none") EXCEPT !.desc = table[requestedTransitionName.val]]
  ELSE Threw("Cannot find state " \o requestedTransitionName.val)

\* StateMachine.update: unpack requested transition
SMRequestedName(requestedTransition) ==
  IF requestedTransition.type = "object" THEN Str(requestedTransition.val) ELSE requestedTransition

SMRequestedParams(requestedTransition) ==
  IF requestedTransition.type = "object" THEN requestedTransition.params ELSE "undefined"

\* an update that resolves every transition through the table, with no direct jump
SMNextStateDescriptorTableOnly(m, requestedTransition) ==
  IF m.stateName \notin DOMAIN m.transitions
  THEN Threw("Cannot find transition for state '" \o m.stateName \o "'")
  ELSE LET transitionDescriptor == m.transitions[m.stateName]
       IN IF transitionDescriptor.kind = "function"
          THEN TransitionTableCall(transitionDescriptor.table, SMRequestedName(requestedTransition))
          ELSE IF transitionDescriptor.kind = "string"
          THEN [Threw("none") EXCEPT !.desc = Str(transitionDescriptor.to)]
          ELSE Threw("Cannot decode transition descriptor")

\* StateMachine.update: the next state descriptor, or the Error thrown
SMNextStateDescriptor(m, requestedTransition) ==
  LET name == SMRequestedName(requestedTransition)
  IN IF /\ name.type = "string"
        /\ name.val \in DOMAIN SMStates
        /\ m.stateName \notin DOMAIN m.transitions
     THEN [Threw("none") EXCEPT !.desc = requestedTransition]
     ELSE IF m.stateName \notin DOMAIN m.transitions
     THEN Threw("Cannot find transition for state '" \o m.stateName \o "'")
     ELSE LET transitionDescriptor == m.transitions[m.stateName]
          IN IF transitionDescriptor.kind = "function"
             THEN TransitionTableCall(transitionDescriptor.table, name)
             ELSE IF transitionDescriptor.kind = "string"
             THEN [Threw("none") EXCEPT !.desc = Str(transitionDescriptor.to)]
             ELSE Threw("Cannot decode transition descriptor")

\* an unpacking that never passes the params of the requested transition through
SMUnpackNextStateDroppingParams(nextStateDescriptor, requestedTransition) ==
  IF nextStateDescriptor.type = "object"
  THEN [Threw("none") EXCEPT !.name = nextStateDescriptor.val, !.params = nextStateDescriptor.params]
  ELSE IF nextStateDescriptor.type = "string"
  THEN [Threw("none") EXCEPT !.name = nextStateDescriptor.val, !.params = "undefined"]
  ELSE Threw("Cannot decode state descriptor")

\* StateMachine.update: unpack the next state
SMUnpackNextState(nextStateDescriptor, requestedTransition) ==
  IF nextStateDescriptor.type = "object"
  THEN [Threw("none") EXCEPT !.name = nextStateDescriptor.val, !.params = nextStateDescriptor.params]
  ELSE IF nextStateDescriptor.type = "string"
  THEN [Threw("none") EXCEPT !.name = nextStateDescriptor.val,
                             !.params = SMRequestedParams(requestedTransition)]
  ELSE Threw("Cannot decode state descriptor")

StateChange(to, params, from, fromParams) ==
  <<"stateChange", [to |-> to, params |-> params, from |-> from, fromParams |-> fromParams]>>

\* a _changeState that leaves the ending state out of visitedStates
SMChangeStateNotRecordingEnd(r, nextStateName, nextStateParams) ==
  IF nextStateName \in SMEndingStates
  THEN [r EXCEPT !.m.requestedTransition = Str(nextStateName)]
  ELSE LET w1 == IF r.m.state # 0 THEN KidTeardown(r.w, r.m.state) ELSE r.w
       IN IF nextStateName \in DOMAIN SMStates
          THEN LET id == SMStates[nextStateName]
                   w2 == KidSetup(w1, id, r.m.entityConfig)
               IN [w |-> [w2 EXCEPT !.calls = Append(@, StateChange(nextStateName, nextStateParams,
                                                                   r.m.stateName, r.m.stateParams))],
                   m |-> [r.m EXCEPT !.state = id,
                                     !.stateName = nextStateName,
                                     !.stateParams = nextStateParams,
                                     !.visitedStates = Append(@, nextStateName)],
                   err |-> "none"]
          ELSE [w |-> w1, m |-> r.m, err |-> "Cannot find state '" \o nextStateName \o "'"]

\* a _changeState that completes with true instead of the ending state's name
SMChangeStateCompletingWithTrue(r, nextStateName, nextStateParams) ==
  IF nextStateName \in SMEndingStates
  THEN [r EXCEPT !.m.requestedTransition = Bool(TRUE),
                 !.m.visitedStates = Append(@, nextStateName)]
  ELSE LET w1 == IF r.m.state # 0 THEN KidTeardown(r.w, r.m.state) ELSE r.w
       IN IF nextStateName \in DOMAIN SMStates
          THEN LET id == SMStates[nextStateName]
                   w2 == KidSetup(w1, id, r.m.entityConfig)
               IN [w |-> [w2 EXCEPT !.calls = Append(@, StateChange(nextStateName, nextStateParams,
                                                                   r.m.stateName, r.m.stateParams))],
                   m |-> [r.m EXCEPT !.state = id,
                                     !.stateName = nextStateName,
                                     !.stateParams = nextStateParams,
                                     !.visitedStates = Append(@, nextStateName)],
                   err |-> "none"]
          ELSE [w |-> w1, m |-> r.m, err |-> "Cannot find state '" \o nextStateName \o "'"]

\* a _changeState that tears the current state down before it completes
SMChangeStateTearingDownAtEnd(r, nextStateName, nextStateParams) ==
  LET w1 == IF r.m.state # 0 THEN KidTeardown(r.w, r.m.state) ELSE r.w
  IN IF nextStateName \in SMEndingStates
     THEN [r EXCEPT !.w = w1,
                    !.m.requestedTransition = Str(nextStateName),
                    !.m.visitedStates = Append(@, nextStateName)]
     ELSE IF nextStateName \in DOMAIN SMStates
     THEN LET id == SMStates[nextStateName]
              w2 == KidSetup(w1, id, r.m.entityConfig)
          IN [w |-> [w2 EXCEPT !.calls = Append(@, StateChange(nextStateName, nextStateParams,
                                                              r.m.stateName, r.m.stateParams))],
              m |-> [r.m EXCEPT !.state = id,
                                !.stateName = nextStateName,
                                !.stateParams = nextStateParams,
                                !.visitedStates = Append(@, nextStateName)],
              err |-> "none"]
     ELSE [w |-> w1, m |-> r.m, err |-> "Cannot find state '" \o nextStateName \o "'"]

\* a _changeState that emits stateChange before it leaves the current state
SMChangeStateNotifyingFirst(r, nextStateName, nextStateParams) ==
  IF nextStateName \in SMEndingStates
  THEN [r EXCEPT !.m.requestedTransition = Str(nextStateName),
                 !.m.visitedStates = Append(@, nextStateName)]
  ELSE LET w0 == [r.w EXCEPT !.calls = Append(@, StateChange(nextStateName, nextStateParams,
                                                            r.m.stateName, r.m.stateParams))]
           w1 == IF r.m.state # 0 THEN KidTeardown(w0, r.m.state) ELSE w0
       IN IF nextStateName \in DOMAIN SMStates
          THEN LET id == SMStates[nextStateName]
               IN [w |-> KidSetup(w1, id, r.m.entityConfig),
                   m |-> [r.m EXCEPT !.state = id,
                                     !.stateName = nextStateName,
                                     !.stateParams = nextStateParams,
                                     !.visitedStates = Append(@, nextStateName)],
                   err |-> "none"]
          ELSE [w |-> w1, m |-> r.m, err |-> "Cannot find state '" \o nextStateName \o "'"]

\* _changeState(nextStateName, nextStateParams)
SMChangeState(r, nextStateName, nextStateParams) ==
  IF nextStateName \in SMEndingStates
  THEN [r EXCEPT !.m.requestedTransition = Str(nextStateName),
                 !.m.visitedStates = Append(@, nextStateName)]
  ELSE LET w1 == IF r.m.state # 0 THEN KidTeardown(r.w, r.m.state) ELSE r.w
       IN IF nextStateName \in DOMAIN SMStates
          THEN LET id == SMStates[nextStateName]
                   w2 == KidSetup(w1, id, r.m.entityConfig)
               IN [w |-> [w2 EXCEPT !.calls = Append(@, StateChange(nextStateName, nextStateParams,
                                                                   r.m.stateName, r.m.stateParams))],
                   m |-> [r.m EXCEPT !.state = id,
                                     !.stateName = nextStateName,
                                     !.stateParams = nextStateParams,
                                     !.visitedStates = Append(@, nextStateName)],
                   err |-> "none"]
          ELSE [w |-> w1, m |-> r.m, err |-> "Cannot find state '" \o nextStateName \o "'"]

\* what every method of the StateMachine leaves alone
SMFrame == UNCHANGED <<ent, subs, par, defl, seq, alt, sw, hist>>

SMDone(r, op) ==
  /\ sm' = r.m
  /\ kids' = r.w.kids /\ calls' = r.w.calls /\ reports' = r.w.reports
  /\ thrown' = r.err
  /\ lastOp' = op
  /\ SMFrame

SMSetup ==
  LET w1 == Report(W0, sm.isSetup, "setup() called twice")
      m1 == [BaseSetup(sm, "config") EXCEPT !.visitedStates = <<>>]
  IN SMDone(SMChangeState([w |-> w1, m |-> m1, err |-> "none"], sm.startingState, "p0"),
            Op("sm.setup", "", ""))

\* update(frameInfo); outcome is what the _update of the state's entity requests.
\* lastOp.a is the transition the update read from it, lastOp.b the next state
\* name it resolved (or "" when it resolved none)
SMUpdate(outcome) ==
  /\ Len(sm.visitedStates) < MaxVisited
  /\ LET w1 == Report(W0, ~sm.isSetup, "update() called before setup()")
         r1 == [w |-> w1, m |-> sm, err |-> "none"]
     IN IF sm.state = 0
        THEN outcome = Keep /\ SMDone(r1, Op("sm.update", Null, ""))
        ELSE LET w2 == KidUpdate(w1, sm.state, outcome)
                 requestedTransition == w2.kids[sm.state].requestedTransition
                 r2 == [r1 EXCEPT !.w = w2]
             IN IF ~Truthy(requestedTransition)
                THEN SMDone(r2, Op("sm.update", requestedTransition, ""))
                ELSE LET d == SMNextStateDescriptor(sm, requestedTransition)
                         n == IF d.err = "none" THEN SMUnpackNextState(d.desc, requestedTransition) ELSE d
                     IN IF n.err # "none"
                        THEN SMDone([r2 EXCEPT !.err = n.err], Op("sm.update", requestedTransition, ""))
                        ELSE SMDone(SMChangeState(r2, n.name, n.params),
                                    Op("sm.update", requestedTransition, n.name))

SMTeardown ==
  LET w1 == IF sm.state # 0 THEN KidTeardown(W0, sm.state) ELSE W0
      m1 == IF sm.state # 0 THEN [sm EXCEPT !.state = 0, !.stateName = "null"] ELSE sm
      w2 == Report(w1, ~sm.isSetup, "teardown() called before setup()")
  IN SMDone([w |-> w2, m |-> BaseTeardown(m1), err |-> "none"], Op("sm.teardown", "", ""))

SMOnSignal ==
  LET w1 == Report(W0, sm.entityConfig = "null", "onSignal() called before setup()")
      w2 == IF sm.state # 0 THEN KidOnSignal(w1, sm.state) ELSE w1
  IN SMDone([w |-> w2, m |-> sm, err |-> "none"], Op("sm.onSignal", "", ""))

InitStateMachine ==
  /\ \E t \in SMTransitionTables, st \in {"start", "end"} : sm = SMInit(t, st)
  /\ kids = [i \in SMKidIds |-> KidInit]
  /\ ent = <<>> /\ subs = <<>> /\ par = <<>> /\ defl = <<>> /\ seq = <<>>
  /\ alt = <<>> /\ sw = <<>> /\ hist = <<>>
  /\ lastOp = Op("new", "", "")
  /\ calls = <<>> /\ reports = <<>> /\ thrown = "none"

NextStateMachine ==
  \/ SMSetup
  \/ \E o \in SMOutcomes : SMUpdate(o)
  \/ SMTeardown
  \/ SMOnSignal
  \/ KidDone(sm.state)

SpecStateMachine == InitStateMachine /\ [][NextStateMachine]_vars

----------------------------------------------------------------------------
(* Alternative *)

\* key.toString(): the default label of the pair at 0-based index key
IndexLabel(key) == ToString(key)

\* the label a caller supplies for child id
SuppliedLabel(id) == "to" \o ToString(id)

\* the constructor, given n children of which those in labelled come as
\* { entity, transition } and the others as bare entities
AltInit(n, labelled) ==
  [isSetup |-> FALSE, requestedTransition |-> Null, entityConfig |-> "null",
   entityPairs |-> [k \in 1..n |->
                     [entity |-> k,
                      transition |-> IF k \in labelled THEN SuppliedLabel(k)
                                     ELSE IndexLabel(k - 1)]]]

RECURSIVE AltSetupLoop(_, _, _)
\* the loop of Alternative._setup, from index i
AltSetupLoop(w, a, i) ==
  IF i > Len(a.entityPairs) THEN [w |-> w, a |-> a]
  ELSE LET entityPair == a.entityPairs[i]
           w1 == KidSetup(w, entityPair.entity, a.entityConfig)
       IN AltSetupLoop(w1,
                       IF Truthy(w1.kids[entityPair.entity].requestedTransition)
                       THEN [a EXCEPT !.requestedTransition = Str(entityPair.transition)]
                       ELSE a,
                       i + 1)

RECURSIVE AltUpdateLoop(_, _, _, _)
\* the loop of Alternative._update, from index i
AltUpdateLoop(w, a, outcomes, i) ==
  IF i > Len(a.entityPairs) THEN [w |-> w, a |-> a]
  ELSE LET entityPair == a.entityPairs[i]
           w1 == KidUpdate(w, entityPair.entity, outcomes[entityPair.entity])
       IN AltUpdateLoop(w1,
                        IF Truthy(w1.kids[entityPair.entity].requestedTransition)
                        THEN [a EXCEPT !.requestedTransition = Str(entityPair.transition)]
                        ELSE a,
                        outcomes, i + 1)

RECURSIVE AltTeardownLoop(_, _, _)
\* the loop of Alternative._teardown, from index i
AltTeardownLoop(w, a, i) ==
  IF i > Len(a.entityPairs) THEN w
  ELSE AltTeardownLoop(KidTeardown(w, a.entityPairs[i].entity), a, i + 1)

\* what every method of the Alternative leaves alone
AltFrame == UNCHANGED <<ent, subs, par, defl, seq, sm, sw, hist>>

\* Entity.setup, with Alternative._setup as its hook
AltSetup ==
  /\ LET w1 == Report(W0, alt.isSetup, "setup() called twice")
         r == AltSetupLoop(w1, BaseSetup(alt, "config"), 1)
     IN /\ alt' = r.a
        /\ kids' = r.w.kids /\ calls' = r.w.calls /\ reports' = r.w.reports
  /\ lastOp' = Op("alt.setup", "", "")
  /\ thrown' = "none"
  /\ AltFrame

\* Entity.update, with Alternative._update as its hook; outcomes says what the
\* _update of each child requests
AltUpdate(outcomes) ==
  /\ \A id \in KidIds : id > Len(alt.entityPairs) => outcomes[id] = Keep
  /\ LET w1 == Report(W0, ~alt.isSetup, "update() called before setup()")
         r == AltUpdateLoop(w1, alt, outcomes, 1)
     IN /\ alt' = r.a
        /\ kids' = r.w.kids /\ calls' = r.w.calls /\ reports' = r.w.reports
  /\ lastOp' = Op("alt.update", "", "")
  /\ thrown' = "none"
  /\ AltFrame

\* Entity.teardown, with Alternative._teardown as its hook
AltTeardown ==
  /\ LET w1 == Report(W0, ~alt.isSetup, "teardown() called before setup()")
         w2 == AltTeardownLoop(w1, alt, 1)
     IN kids' = w2.kids /\ calls' = w2.calls /\ reports' = w2.reports
  /\ alt' = BaseTeardown(alt)
  /\ lastOp' = Op("alt.teardown", "", "")
  /\ thrown' = "none"
  /\ AltFrame

\* Entity.onSignal: Alternative has no _onSignal of its own
AltOnSignal ==
  /\ LET w1 == Report(W0, alt.entityConfig = "null", "onSignal() called before setup()")
     IN kids' = w1.kids /\ calls' = w1.calls /\ reports' = w1.reports
  /\ lastOp' = Op("alt.onSignal", "", "")
  /\ thrown' = "none"
  /\ UNCHANGED alt
  /\ AltFrame

InitAlternative ==
  /\ \E n \in 1..MaxKids : \E labelled \in SUBSET (1..n) : alt = AltInit(n, labelled)
  /\ kids = [i \in KidIds |-> KidInit]
  /\ ent = <<>> /\ subs = <<>> /\ par = <<>> /\ defl = <<>> /\ seq = <<>>
  /\ sm = <<>> /\ sw = <<>> /\ hist = <<>>
  /\ lastOp = Op("new", "", "")
  /\ calls = <<>> /\ reports = <<>> /\ thrown = "none"

NextAlternative ==
  \/ AltSetup
  \/ \E o \in UpdateOutcomes : AltUpdate(o)
  \/ AltTeardown
  \/ AltOnSignal
  \/ \E k \in 1..Len(alt.entityPairs) : KidDone(alt.entityPairs[k].entity)

SpecAlternative == InitAlternative /\ [][NextAlternative]_vars

----------------------------------------------------------------------------
(* SwitchingEntity *)

\* indices are the code's: 0-based, -1 for no active entity
SwInit ==
  [isSetup |-> FALSE, requestedTransition |-> Null, entityConfig |-> "null",
   entities |-> <<>>, entityConfigs |-> <<>>, activeEntityIndex |-> -1]

\* this.entities[index] is an entity, not undefined
SwHasIndex(s, index) == index >= 0 /\ index < Len(s.entities)

\* a switchToIndex that sets up the new entity before it tears down the old one
SwitchToIndexSetupFirst(r, index) ==
  IF r.err # "none" THEN r
  ELSE LET active == r.s.activeEntityIndex
           s1 == [r.s EXCEPT !.activeEntityIndex = index]
       IN IF (index >= 0 /\ ~SwHasIndex(r.s, index)) \/ (active >= 0 /\ ~SwHasIndex(r.s, active))
          THEN [r EXCEPT !.err = "TypeError"]
          ELSE LET w1 == IF index >= 0
                         THEN KidSetup(r.w, r.s.entities[index + 1],
                                       ProcessEntityConfig(r.s.entityConfig, r.s.entityConfigs[index + 1]))
                         ELSE r.w
                   w2 == IF active >= 0 THEN KidTeardown(w1, r.s.entities[active + 1]) ELSE w1
               IN [w |-> w2, s |-> s1, err |-> "none"]

\* switchToIndex(index), run on r = the children, the SwitchingEntity and the
\* error thrown so far; calling a method of this.entities[k] for a k outside
\* the list throws a TypeError
SwitchToIndex(r, index) ==
  IF r.err # "none" THEN r
  ELSE LET active == r.s.activeEntityIndex
       IN IF active >= 0 /\ ~SwHasIndex(r.s, active)
          THEN [r EXCEPT !.err = "TypeError"]
          ELSE LET w1 == IF active >= 0 THEN KidTeardown(r.w, r.s.entities[active + 1]) ELSE r.w
                   s1 == [r.s EXCEPT !.activeEntityIndex = index]
               IN IF index < 0 THEN [w |-> w1, s |-> s1, err |-> "none"]
                  ELSE IF ~SwHasIndex(s1, index) THEN [w |-> w1, s |-> s1, err |-> "TypeError"]
                  ELSE [w |-> KidSetup(w1, s1.entities[index + 1],
                                       ProcessEntityConfig(s1.entityConfig, s1.entityConfigs[index + 1])),
                        s |-> s1, err |-> "none"]

\* what every method of the SwitchingEntity leaves alone
SwFrame == UNCHANGED <<ent, subs, par, defl, seq, sm, alt, hist>>

\* a method returns, or throws r.err
SwDone(r, op) ==
  /\ sw' = r.s
  /\ kids' = r.w.kids /\ calls' = r.w.calls /\ reports' = r.w.reports
  /\ thrown' = r.err
  /\ lastOp' = op
  /\ SwFrame

SwSetup ==
  LET w1 == Report(W0, sw.isSetup, "setup() called twice")
      r == [w |-> w1, s |-> BaseSetup(sw, "config"), err |-> "none"]
  IN SwDone(IF r.s.activeEntityIndex > 0 THEN SwitchToIndex(r, r.s.activeEntityIndex) ELSE r,
            Op("sw.setup", "", ""))

\* update(frameInfo); outcome is what the _update of the active entity requests
SwUpdate(outcome) ==
  /\ ~SwHasIndex(sw, sw.activeEntityIndex) => outcome = Keep
  /\ LET w1 == Report(W0, ~sw.isSetup, "update() called before setup()")
     IN SwDone(IF sw.activeEntityIndex < 0 THEN [w |-> w1, s |-> sw, err |-> "none"]
               ELSE IF ~SwHasIndex(sw, sw.activeEntityIndex)
               THEN [w |-> w1, s |-> sw, err |-> "TypeError"]
               ELSE [w |-> KidUpdate(w1, sw.entities[sw.activeEntityIndex + 1], outcome),
                     s |-> sw, err |-> "none"],
               Op("sw.update", "", ""))

SwTeardown ==
  LET r == SwitchToIndex([w |-> W0, s |-> sw, err |-> "none"], -1)
  IN SwDone(IF r.err # "none" THEN r
            ELSE [w |-> Report(r.w, ~sw.isSetup, "teardown() called before setup()"),
                  s |-> BaseTeardown(r.s), err |-> "none"],
            Op("sw.teardown", "", ""))

SwOnSignal ==
  LET w1 == Report(W0, sw.entityConfig = "null", "onSignal() called before setup()")
  IN SwDone(IF sw.activeEntityIndex < 0 THEN [w |-> w1, s |-> sw, err |-> "none"]
            ELSE IF ~SwHasIndex(sw, sw.activeEntityIndex)
            THEN [w |-> w1, s |-> sw, err |-> "TypeError"]
            ELSE [w |-> KidOnSignal(w1, sw.entities[sw.activeEntityIndex + 1]),
                  s |-> sw, err |-> "none"],
            Op("sw.onSignal", "", ""))

\* addEntity(entity, entityConfig), with a child that is not in the list (the
\* lowest-numbered one)
SwAddEntity(id) ==
  /\ Len(sw.entities) < MaxSwitched
  /\ IndexOf(sw.entities, id) = 0
  /\ \A j \in KidIds : j < id => IndexOf(sw.entities, j) # 0
  /\ SwDone([w |-> W0,
             s |-> [sw EXCEPT !.entities = Append(@, id),
                              !.entityConfigs = Append(@, OverrideOf(id))],
             err |-> "none"],
            Op("sw.addEntity", id, ""))

\* switchToIndex(index), called by the owner
SwSwitchToIndex(index) ==
  SwDone(SwitchToIndex([w |-> W0, s |-> sw, err |-> "none"], index),
         Op("sw.switchToIndex", index, ""))

\* a switchToEntity that hands the -1 of indexOf on to switchToIndex
SwSwitchToEntityUnchecked(id) ==
  SwDone(SwitchToIndex([w |-> W0, s |-> sw, err |-> "none"], IndexOf(sw.entities, id) - 1),
         Op("sw.switchToEntity", id, ""))

\* switchToEntity(entity); id 0 is null
SwSwitchToEntity(id) ==
  LET r == [w |-> W0, s |-> sw, err |-> "none"]
      index == IndexOf(sw.entities, id) - 1
  IN SwDone(IF id = 0 THEN SwitchToIndex(r, -1)
            ELSE IF index = -1 THEN [r EXCEPT !.err = "Cannot find entity"]
            ELSE SwitchToIndex(r, index),
            Op("sw.switchToEntity", id, ""))

SwRemoveEntity(id) ==
  LET r == [w |-> W0, s |-> sw, err |-> "none"]
      index == IndexOf(sw.entities, id) - 1
      r1 == IF index = sw.activeEntityIndex THEN SwitchToIndex(r, -1) ELSE r
  IN SwDone(IF index = -1 THEN [r EXCEPT !.err = "Cannot find entity"]
            ELSE IF r1.err # "none" THEN r1
            ELSE [r1 EXCEPT !.s.entities = Splice(@, index + 1),
                            !.s.entityConfigs = Splice(@, index + 1)],
            Op("sw.removeEntity", id, ""))

SwRemoveAllEntities ==
  LET r == SwitchToIndex([w |-> W0, s |-> sw, err |-> "none"], -1)
  IN SwDone(IF r.err # "none" THEN r
            ELSE [r EXCEPT !.s.entities = <<>>, !.s.entityConfigs = <<>>,
                           !.s.activeEntityIndex = -1],
            Op("sw.removeAllEntities", "", ""))

InitSwitching ==
  /\ sw = SwInit
  /\ kids = [i \in KidIds |-> KidInit]
  /\ ent = <<>> /\ subs = <<>> /\ par = <<>> /\ defl = <<>> /\ seq = <<>>
  /\ sm = <<>> /\ alt = <<>> /\ hist = <<>>
  /\ lastOp = Op("new", "", "")
  /\ calls = <<>> /\ reports = <<>> /\ thrown = "none"

NextSwitching ==
  \/ SwSetup
  \/ \E outcome \in {Keep, Bool(TRUE)} : SwUpdate(outcome)
  \/ SwTeardown
  \/ SwOnSignal
  \/ \E id \in KidIds : SwAddEntity(id)
  \/ \E index \in -1..MaxSwitched : SwSwitchToIndex(index)
  \/ \E id \in {0} \cup KidIds : SwSwitchToEntity(id)
  \/ \E id \in KidIds : SwRemoveEntity(id)
  \/ SwRemoveAllEntities

SpecSwitching == InitSwitching /\ [][NextSwitching]_vars

----------------------------------------------------------------------------
(* The composites side by side: one of them is built, and its methods run *)

\* the composite held by variable x is the one that was built
Live(x) == DOMAIN x # {}

InitComposites ==
  \/ InitParallel
  \/ InitDeflating
  \/ InitSequence
  \/ InitStateMachine
  \/ InitAlternative
  \/ InitSwitching

NextComposites ==
  \/ Live(par) /\ NextParallel
  \/ Live(defl) /\ NextDeflating
  \/ Live(seq) /\ NextSequence
  \/ Live(sm) /\ NextStateMachine
  \/ Live(alt) /\ NextAlternative
  \/ Live(sw) /\ NextSwitching

SpecComposites == InitComposites /\ [][NextComposites]_vars

----------------------------------------------------------------------------
(* FunctionalEntity *)

\* the keys of the functions object
FunctionNames == {"setup", "update", "teardown", "onSignal", "requestTransition"}

\* a child entity, seen as the value of an entityConfig argument
AsConfig(id) == "entity" \o ToString(id)

\* new FunctionalEntity(functions, childEntities): super() with no options,
\* then this.addEntity(null, childEntity) for each listed child, which pushes
\* null on entities and the child on entityConfigs (0 stands for null)
FnInit(functions, childEntities) ==
  [isSetup |-> FALSE, requestedTransition |-> Null, entityConfig |-> "null",
   autoTransition |-> FALSE,
   functions |-> functions,
   entities |-> [k \in 1..Len(childEntities) |-> 0],
   entityConfigs |-> [k \in 1..Len(childEntities) |-> AsConfig(childEntities[k])],
   entityIsActive |-> [k \in 1..Len(childEntities) |-> TRUE]]

\* the first index at which a loop over entities dereferences null: any null
\* entry, or with activeOnly only one whose flag is set; 0 if there is none
NullAt(p, activeOnly) ==
  LET hit(k) == p.entities[k] = 0 /\ (activeOnly => p.entityIsActive[k])
  IN IF \E k \in 1..Len(p.entities) : hit(k)
     THEN CHOOSE k \in 1..Len(p.entities) : hit(k) /\ \A j \in 1..(k-1) : ~hit(j)
     ELSE 0

\* the part of the lists a loop gets through before it throws at index k
FnHead(p, k) ==
  IF k = 0 THEN p
  ELSE [p EXCEPT !.entities = SubSeq(@, 1, k-1),
                 !.entityConfigs = SubSeq(@, 1, k-1),
                 !.entityIsActive = SubSeq(@, 1, k-1)]

\* the lists after a loop that threw at index k: what it did, then the rest untouched
FnRejoin(h, p, k) ==
  IF k = 0 THEN h
  ELSE [h EXCEPT !.entities = @ \o SubSeq(p.entities, k, Len(p.entities)),
                 !.entityConfigs = @ \o SubSeq(p.entityConfigs, k, Len(p.entities)),
                 !.entityIsActive = @ \o SubSeq(p.entityIsActive, k, Len(p.entities))]

\* the call of a function of the functions object, if it was given
FnCall(w, p, name) ==
  IF name \in p.functions THEN [w EXCEPT !.calls = Append(@, <<"functions." \o name, 0>>)] ELSE w

\* a method that reads a property of null throws a TypeError
FnThrown(k) == IF k = 0 THEN "none" ELSE "TypeError"

\* FunctionalEntity.setup: ParallelEntity.setup, then functions.setup
FnSetup ==
  /\ LET k == NullAt(par, FALSE)
         b == BaseSetup(par, "config")
         w1 == Report(W0, par.isSetup, "setup() called twice")
         r == ParSetupLoop(w1, FnHead(b, k), 1)
         w2 == IF k = 0 THEN FnCall(r.w, par, "setup") ELSE r.w
     IN /\ par' = FnRejoin(r.p, b, k)
        /\ kids' = w2.kids /\ calls' = w2.calls /\ reports' = w2.reports
        /\ thrown' = FnThrown(k)
  /\ lastOp' = Op("fn.setup", "", "")
  /\ ParFrame

\* FunctionalEntity.update: ParallelEntity.update, then functions.update, then
\* requestedTransition = functions.requestTransition(), which returns requested
FnUpdate(outcomes, requested) ==
  /\ \A id \in KidIds : ~(\E j \in 1..Len(par.entities) : par.entities[j] = id /\ par.entityIsActive[j])
                          => outcomes[id] = Keep
  /\ LET k == NullAt(par, TRUE)
         w1 == Report(W0, ~par.isSetup, "update() called before setup()")
         r == ParUpdateLoop(w1, FnHead(par, k), outcomes, 1)
         p1 == FnRejoin(r.p, par, k)
         p2 == IF ParAutoCompletes(p1) THEN [p1 EXCEPT !.requestedTransition = Bool(TRUE)] ELSE p1
         w2 == FnCall(FnCall(r.w, par, "update"), par, "requestTransition")
     IN /\ requested # Null => k = 0 /\ "requestTransition" \in par.functions
        /\ IF k # 0
           THEN /\ par' = p1
                /\ kids' = r.w.kids /\ calls' = r.w.calls /\ reports' = r.w.reports
           ELSE /\ par' = IF "requestTransition" \in par.functions
                          THEN [p2 EXCEPT !.requestedTransition = requested]
                          ELSE p2
                /\ kids' = w2.kids /\ calls' = w2.calls /\ reports' = w2.reports
        /\ thrown' = FnThrown(k)
  /\ lastOp' = Op("fn.update", "", "")
  /\ ParFrame

\* FunctionalEntity.teardown: functions.teardown, then ParallelEntity.teardown
FnTeardown ==
  /\ LET k == NullAt(par, TRUE)
         r == ParTeardownLoop(FnCall(W0, par, "teardown"), FnHead(par, k), 1)
         w1 == IF k = 0 THEN Report(r.w, ~par.isSetup, "teardown() called before setup()") ELSE r.w
     IN /\ par' = IF k = 0 THEN BaseTeardown(r.p) ELSE FnRejoin(r.p, par, k)
        /\ kids' = w1.kids /\ calls' = w1.calls /\ reports' = w1.reports
        /\ thrown' = FnThrown(k)
  /\ lastOp' = Op("fn.teardown", "", "")
  /\ ParFrame

\* FunctionalEntity.onSignal: ParallelEntity.onSignal, then functions.onSignal
FnOnSignal ==
  /\ LET k == NullAt(par, TRUE)
         w1 == Report(W0, par.entityConfig = "null", "onSignal() called before setup()")
         w2 == ParSignalLoop(w1, FnHead(par, k), 1)
         w3 == IF k = 0 THEN FnCall(w2, par, "onSignal") ELSE w2
     IN /\ kids' = w3.kids /\ calls' = w3.calls /\ reports' = w3.reports
        /\ thrown' = FnThrown(k)
  /\ lastOp' = Op("fn.onSignal", "", "")
  /\ UNCHANGED par
  /\ ParFrame

\* the inherited removeAllEntities, whose loop reads entity.isSetup of each entry
FnRemoveAllEntities ==
  /\ LET k == NullAt(par, FALSE)
         h == FnHead(par, k)
         w1 == TeardownAllSetUp(W0, h.entities, 1)
     IN /\ kids' = w1.kids /\ calls' = w1.calls /\ reports' = w1.reports
        /\ par' = IF h.entities = <<>> THEN par
                  ELSE [par EXCEPT !.entities = <<>>, !.entityConfigs = <<>>, !.entityIsActive = <<>>]
        /\ thrown' = FnThrown(k)
  /\ lastOp' = Op("fn.removeAllEntities", "", "")
  /\ ParFrame

\* the child lists a FunctionalEntity is built with
FnChildLists == {<<>>, <<1>>, <<1, 2>>}

InitFunctional ==
  /\ \E f \in {{}, FunctionNames}, c \in FnChildLists : par = FnInit(f, c)
  /\ kids = [i \in KidIds |-> KidInit]
  /\ ent = <<>> /\ subs = <<>> /\ defl = <<>> /\ seq = <<>> /\ sm = <<>>
  /\ alt = <<>> /\ sw = <<>> /\ hist = <<>>
  /\ lastOp = Op("new", "", "")
  /\ calls = <<>> /\ reports = <<>> /\ thrown = "none"

\* addEntity and removeEntity are the inherited methods, called with an entity
NextFunctional ==
  \/ FnSetup
  \/ \E o \in UpdateOutcomes, t \in {Null, Bool(TRUE)} : FnUpdate(o, t)
  \/ FnTeardown
  \/ FnOnSignal
  \/ \E id \in KidIds : ParAddEntity(id)
  \/ \E id \in KidIds : ParRemoveEntity(id)
  \/ FnRemoveAllEntities
  \/ \E id \in KidIds : KidDone(id)

SpecFunctional == InitFunctional /\ [][NextFunctional]_vars

----------------------------------------------------------------------------
(* Decision *)

\* Decision._setup: this.requestedTransition = this.f()
DecisionSetupHook(e, result) == [e EXCEPT !.requestedTransition = Bool(result)]

\* what every method of the Decision leaves alone
DecFrame == UNCHANGED <<subs, kids, par, defl, seq, sm, alt, sw>>

\* Entity.setup with Decision._setup as the hook; the predicate f returns result
DecSetup(frameInfo, result) ==
  /\ hist.setups < MaxSetups
  /\ hist' = [setups |-> hist.setups + 1, evaluations |-> hist.evaluations + 1]
  /\ ent' = [DecisionSetupHook(SetupFields(ent, frameInfo, "config"), result) EXCEPT !.phase = "setup"]
  /\ calls' = << <<"f", 0>> >>
  /\ reports' = IF ent.isSetup THEN <<"setup() called twice">> ELSE <<>>
  /\ lastOp' = Op("dec.setup", result, "")
  /\ thrown' = "none"
  /\ DecFrame

\* Entity.update; Decision has no _update
DecUpdate(frameInfo) ==
  /\ ent' = [ent EXCEPT !.lastFrameInfo = frameInfo]
  /\ calls' = <<>>
  /\ reports' = IF ~ent.isSetup THEN <<"update() called before setup()">> ELSE <<>>
  /\ lastOp' = Op("dec.update", "", "")
  /\ thrown' = "none"
  /\ UNCHANGED hist
  /\ DecFrame

\* Entity.teardown; Decision has no _teardown and registers no listener
DecTeardown(frameInfo) ==
  /\ LET st == TeardownOff([ent |-> [ent EXCEPT !.lastFrameInfo = frameInfo], subs |-> subs])
     IN ent' = [TeardownFields(st.ent) EXCEPT !.phase = "teardown"]
  /\ calls' = <<>>
  /\ reports' = IF ~ent.isSetup THEN <<"teardown() called before setup()">> ELSE <<>>
  /\ lastOp' = Op("dec.teardown", "", "")
  /\ thrown' = "none"
  /\ UNCHANGED hist
  /\ DecFrame

\* Entity.onSignal; Decision has no _onSignal
DecOnSignal(frameInfo) ==
  /\ ent' = [ent EXCEPT !.lastFrameInfo = frameInfo]
  /\ calls' = <<>>
  /\ reports' = IF ent.entityConfig = "null" THEN <<"onSignal() called before setup()">> ELSE <<>>
  /\ lastOp' = Op("dec.onSignal", "", "")
  /\ thrown' = "none"
  /\ UNCHANGED hist
  /\ DecFrame

\* hist counts the setup calls made and the calls of the predicate f
InitDecision ==
  /\ ent = EntInit
  /\ subs = <<>>
  /\ kids = <<>> /\ par = <<>> /\ defl = <<>> /\ seq = <<>> /\ sm = <<>>
  /\ alt = <<>> /\ sw = <<>>
  /\ hist = [setups |-> 0, evaluations |-> 0]
  /\ lastOp = Op("new", "", "")
  /\ calls = <<>> /\ reports = <<>> /\ thrown = "none"

NextDecision ==
  \/ \E f \in Frames, result \in BOOLEAN : DecSetup(f, result)
  \/ \E f \in Frames : DecUpdate(f)
  \/ \E f \in Frames : DecTeardown(f)
  \/ \E f \in Frames : DecOnSignal(f)

SpecDecision == InitDecision /\ [][NextDecision]_vars

----------------------------------------------------------------------------
(* The claims *)

(* C1: isSetup is false before the first setup, true from the moment setup
   has run until teardown runs (the hooks _setup, _update and _teardown of
   contract-respecting calls see it true), and false after teardown; a later
   setup makes it true again. *)
C1_IsSetupFollowsLifecycle ==
  /\ (ent.phase = "created" => ~ent.isSetup)
  /\ (ent.phase = "setup" => ent.isSetup)
  /\ (ent.phase = "teardown" => ~ent.isSetup)
  /\ (lastOp.op \in {"setup", "update", "teardown"} /\ reports = <<>>
        => lastOp.a = "isSetup")

C1_Witness ==
  /\ lastOp.op = "teardown" /\ reports = <<>>
  /\ lastOp.a = "isSetup" /\ ~ent.isSetup

(* C2: when teardown returns, the entity's listener registry is empty and no
   emitter holds a callback of the entity any more, whatever the _teardown
   hook did; an event fired right after teardown runs no callback of the
   entity and leaves its requestedTransition alone. *)
C2_TeardownReleasesListeners ==
  /\ [](lastOp.op = "teardown" => ent.eventListeners = <<>> /\ subs = <<>>)
  /\ [][lastOp.op = "teardown" /\ lastOp'.op = "emit"
          => calls' = <<>> /\ ent'.requestedTransition = ent.requestedTransition]_vars

C2_Witness ==
  /\ lastOp.op = "teardown" /\ reports = <<>>
  /\ lastOp.b = 2
  /\ ent.eventListeners = <<>> /\ subs = <<>>

ParIsActive(p, id) == \E k \in 1..Len(p.entities) : p.entities[k] = id /\ p.entityIsActive[k]

(* C3: in a set-up ParallelEntity, an update tears down and marks inactive
   every active child whose requestedTransition is truthy after its own
   update, keeps it in the list, and leaves every other active child set up
   and active; with autoTransition the parent's requestedTransition is true
   at the end of an update that leaves no child active, and it never becomes
   truthy in any other way: not by an update that leaves a child active, and
   not without autoTransition. *)
C3_ParallelUpdate ==
  /\ [][par.isSetup /\ lastOp'.op = "par.update" =>
          /\ par'.entities = par.entities
          /\ \A k \in 1..Len(par.entities) :
               LET id == par.entities[k]
               IN IF par.entityIsActive[k]
                  THEN /\ kids[id].isSetup
                       /\ IF Truthy(kids'[id].requestedTransition)
                          THEN ~kids'[id].isSetup /\ ~par'.entityIsActive[k]
                          ELSE kids'[id].isSetup /\ par'.entityIsActive[k]
                  ELSE ~par'.entityIsActive[k] /\ kids'[id] = kids[id]
          /\ (par.autoTransition /\ ~(\E id \in KidIds : ParIsActive(par', id))
                => par'.requestedTransition = Bool(TRUE))]_vars
  /\ [][~Truthy(par.requestedTransition) /\ Truthy(par'.requestedTransition) =>
          /\ lastOp'.op = "par.update"
          /\ par.autoTransition
          /\ ~(\E id \in KidIds : ParIsActive(par', id))]_vars

\* children 1 and 3 of three completed in this update, child 2 runs on, and the
\* parent (autoTransition) has not completed
C3_Witness ==
  /\ lastOp.op = "par.update" /\ par.isSetup /\ par.autoTransition
  /\ Len(par.entities) = 3
  /\ calls = <<<<"update", par.entities[1]>>, <<"teardown", par.entities[1]>>,
               <<"update", par.entities[2]>>,
               <<"update", par.entities[3]>>, <<"teardown", par.entities[3]>>>>
  /\ par.entityIsActive = <<FALSE, TRUE, FALSE>>
  /\ kids[par.entities[2]].isSetup
  /\ ~Truthy(par.requestedTransition)

RECURSIVE NotCompleted(_, _)
\* the children of the list s whose requestedTransition is falsy in k, in order
NotCompleted(s, k) ==
  IF s = <<>> THEN <<>>
  ELSE IF Truthy(k[Head(s)].requestedTransition)
       THEN NotCompleted(Tail(s), k)
       ELSE <<Head(s)>> \o NotCompleted(Tail(s), k)

(* C4 as stated: after an update of a set-up DeflatingCompositeEntity with
   autoTransition, requestedTransition is truthy exactly when the live list
   is empty. *)
C4_AsStated ==
  defl.isSetup /\ defl.autoTransition /\ lastOp.op = "defl.update"
    => (Truthy(defl.requestedTransition) <=> defl.entities = <<>>)

(* C4, amended: an update of a set-up DeflatingCompositeEntity leaves in the
   live list exactly the children that have not completed, in their order,
   every completed child torn down and spliced out and the others set up;
   with autoTransition, requestedTransition is true at the end of every
   update that leaves the list empty and becomes truthy in no other way; no
   method but setup clears it, so it stays truthy when children are added
   afterwards. *)
C4_DeflatingUpdate ==
  /\ [][defl.isSetup /\ lastOp'.op = "defl.update" =>
          /\ defl'.entities = NotCompleted(defl.entities, kids')
          /\ \A k \in 1..Len(defl.entities) :
               LET id == defl.entities[k]
               IN kids'[id].isSetup <=> ~Truthy(kids'[id].requestedTransition)
          /\ (defl.autoTransition /\ defl'.entities = <<>>
                => defl'.requestedTransition = Bool(TRUE))]_vars
  /\ [][~Truthy(defl.requestedTransition) /\ Truthy(defl'.requestedTransition) =>
          /\ lastOp'.op = "defl.update"
          /\ defl.autoTransition
          /\ defl'.entities = <<>>]_vars
  /\ [][Truthy(defl.requestedTransition) /\ ~Truthy(defl'.requestedTransition) =>
          lastOp'.op = "defl.setup"]_vars

\* of the children <<a, b>>, a completed in this update and the list is <<b>>
C4_Witness ==
  /\ lastOp.op = "defl.update" /\ defl.isSetup /\ defl.autoTransition
  /\ Len(defl.entities) = 1
  /\ \E a \in KidIds :
       calls = <<<<"update", a>>, <<"teardown", a>>, <<"update", defl.entities[1]>>>>
  /\ kids[defl.entities[1]].isSetup
  /\ ~Truthy(defl.requestedTransition)

\* setup and teardown of the first k entities of the list e, one after the other
SetupTeardownPairs(e, k) ==
  [j \in 1..(2 * k) |-> IF j % 2 = 1 THEN <<"setup", e[(j + 1) \div 2]>>
                        ELSE <<"teardown", e[j \div 2]>>]

(* C5: in a non-looping EntitySequence that was set up with no child set up
   and has since seen only update calls (and its teardown), the setup and
   teardown calls on the children are setup(0), teardown(0), setup(1), ...
   in list order, one pair per child: up to the setup of the current child
   while the sequence runs, all n pairs once it has completed; its
   requestedTransition is falsy until the last child has completed and is
   then the transition the last child requested. *)
C5_SequenceLifecycle ==
  hist.plain /\ ~seq.loop =>
    LET n == Len(seq.entities)
        i == seq.currentEntityIndex
    IN IF Truthy(seq.requestedTransition)
       THEN /\ hist.calls = SetupTeardownPairs(seq.entities, n)
            /\ seq.requestedTransition = kids[seq.entities[n]].requestedTransition
       ELSE IF seq.isSetup
       THEN hist.calls = SetupTeardownPairs(seq.entities, i) \o <<<<"setup", seq.entities[i + 1]>>>>
       ELSE hist.calls = SetupTeardownPairs(seq.entities, i + 1)

\* three children have completed one after the other, and the sequence has
\* completed with the transition of the third
C5_Witness ==
  /\ hist.plain /\ ~seq.loop /\ seq.isSetup
  /\ Len(seq.entities) = 3
  /\ hist.calls = <<<<"setup", 1>>, <<"teardown", 1>>, <<"setup", 2>>, <<"teardown", 2>>,
                    <<"setup", 3>>, <<"teardown", 3>>>>
  /\ seq.requestedTransition = Str("next")
  /\ lastOp.op = "seq.update"

(* C6: in a set-up looping EntitySequence, the update in which the last child
   completes tears that child down and sets up entity 0 again, with
   currentEntityIndex 0; after every update the sequence's own
   requestedTransition is falsy. *)
C6_SequenceLoops ==
  /\ [](seq.loop /\ lastOp.op = "seq.update" => ~Truthy(seq.requestedTransition))
  /\ [][/\ seq.isSetup /\ seq.loop /\ lastOp'.op = "seq.update"
        /\ seq.currentEntityIndex = Len(seq.entities) - 1
        /\ Truthy(lastOp'.a)
        => /\ calls' = <<<<"update", seq.currentEntity>>, <<"teardown", seq.currentEntity>>,
                         <<"setup", seq.entities[1]>>>>
           /\ seq'.currentEntityIndex = 0
           /\ seq'.currentEntity = seq.entities[1]
           /\ kids'[seq.entities[1]].isSetup
           /\ \A id \in KidIds : id # seq.entities[1] => ~kids'[id].isSetup]_vars

\* the third of three children completed in this update and the first one is set up again
C6_Witness ==
  /\ seq.isSetup /\ seq.loop /\ lastOp.op = "seq.update"
  /\ Len(seq.entities) = 3
  /\ calls = <<<<"update", 3>>, <<"teardown", 3>>, <<"setup", 1>>>>
  /\ seq.currentEntityIndex = 0
  /\ kids[1].isSetup /\ ~kids[3].isSetup
  /\ ~Truthy(seq.requestedTransition)

(* C7: a StateMachine's requestedTransition becomes truthy only when a next
   state is resolved, at setup or in an update, whose name is one of the
   ending states; and whenever the resolved next state name E is an ending
   state, requestedTransition is E when the call returns. *)
C7_MachineCompletesWithEndingState ==
  /\ [](lastOp.op = "sm.setup" =>
          IF sm.startingState \in SMEndingStates
          THEN sm.requestedTransition = Str(sm.startingState)
          ELSE ~Truthy(sm.requestedTransition))
  /\ [](lastOp.op = "sm.update" /\ lastOp.b \in SMEndingStates =>
          sm.requestedTransition = Str(lastOp.b))
  /\ [][~Truthy(sm.requestedTransition) /\ Truthy(sm'.requestedTransition) =>
          \/ lastOp'.op = "sm.update" /\ lastOp'.b \in SMEndingStates
          \/ lastOp'.op = "sm.setup" /\ sm.startingState \in SMEndingStates]_vars

\* state "middle" completed with "finish", which its table resolves to "end"
C7_Witness ==
  /\ sm.isSetup /\ lastOp.op = "sm.update"
  /\ sm.stateName = "middle" /\ lastOp.a = Str("finish") /\ lastOp.b = "end"
  /\ sm.transitions["middle"].kind = "function"
  /\ sm.requestedTransition = Str("end")

(* C8 as stated: the starting state's name, entered at setup, is not in
   visitedStates. *)
C8_AsStated ==
  lastOp.op = "sm.setup" /\ thrown = "none" => sm.visitedStates = <<>>

(* C8, amended: visitedStates is the list of the names of the next states
   the machine has resolved since its setup, in order: the starting state
   entered at setup comes first, every state moved to and every ending state
   reached is appended when it is resolved, and nothing else changes the
   list (start -> middle -> end gives <<"start", "middle", "end">>). *)
C8_VisitedStates ==
  /\ [](lastOp.op = "sm.setup" /\ thrown = "none" => sm.visitedStates = <<sm.startingState>>)
  /\ [][lastOp'.op = "sm.update" =>
          IF lastOp'.b # "" /\ thrown' = "none"
          THEN /\ sm'.visitedStates = Append(sm.visitedStates, lastOp'.b)
               /\ lastOp'.b \notin SMEndingStates => sm'.stateName = lastOp'.b
          ELSE sm'.visitedStates = sm.visitedStates]_vars
  /\ [][lastOp'.op \notin {"sm.update", "sm.setup"} =>
          sm'.visitedStates = sm.visitedStates]_vars

\* start -> middle -> end
C8_Witness ==
  /\ sm.isSetup /\ lastOp.op = "sm.update"
  /\ sm.visitedStates = <<"start", "middle", "end">>
  /\ sm.requestedTransition = Str("end")

\* the first pair, from index i, whose entity requests a transition; 0 if none
RECURSIVE AltFirstRequesting(_, _, _)
AltFirstRequesting(w, a, i) ==
  IF i > Len(a.entityPairs) THEN 0
  ELSE IF Truthy(w.kids[a.entityPairs[i].entity].requestedTransition) THEN i
  ELSE AltFirstRequesting(w, a, i + 1)

(* C9: when several children of an Alternative have a truthy
   requestedTransition in the same setup or update pass, the Alternative's
   requestedTransition after the pass is the label of the first such child
   in list order. *)
C9_FirstCompleterWins ==
  /\ alt.isSetup /\ lastOp.op \in {"alt.setup", "alt.update"}
  /\ Cardinality({k \in 1..Len(alt.entityPairs) :
                    Truthy(kids[alt.entityPairs[k].entity].requestedTransition)}) > 1
  => LET first == AltFirstRequesting([kids |-> kids], alt, 1)
     IN alt.requestedTransition = Str(alt.entityPairs[first].transition)

(* C10: in a set-up SwitchingEntity whose active index i names a child,
   switchToIndex(j) for another child j calls teardown on child i and then
   setup on child j, and nothing else, and leaves j the active index;
   switchToIndex(-1) calls teardown on the active child if there is one,
   sets up no child, and leaves activeEntityIndex = -1. *)
C10_SwitchToIndex ==
  [][sw.isSetup /\ lastOp'.op = "sw.switchToIndex" =>
       LET i == sw.activeEntityIndex
           j == lastOp'.a
       IN /\ SwHasIndex(sw, i) /\ SwHasIndex(sw, j) /\ j # i =>
               /\ calls' = << <<"teardown", sw.entities[i + 1]>>, <<"setup", sw.entities[j + 1]>> >>
               /\ ~kids'[sw.entities[i + 1]].isSetup
               /\ kids'[sw.entities[j + 1]].isSetup
               /\ sw'.activeEntityIndex = j
               /\ thrown' = "none"
          /\ j = -1 /\ (i = -1 \/ SwHasIndex(sw, i)) =>
               /\ calls' = IF i = -1 THEN <<>> ELSE << <<"teardown", sw.entities[i + 1]>> >>
               /\ \A id \in KidIds : kids'[id].isSetup => kids[id].isSetup
               /\ sw'.activeEntityIndex = -1
               /\ thrown' = "none"]_vars

\* the owner has switched from the first child to the second
C10_Witness ==
  /\ sw.isSetup /\ lastOp.op = "sw.switchToIndex" /\ lastOp.a = 1
  /\ sw.entities = <<1, 2>> /\ sw.activeEntityIndex = 1
  /\ calls = << <<"teardown", 1>>, <<"setup", 2>> >>
  /\ ~kids[1].isSetup /\ kids[2].isSetup
  /\ thrown = "none"

(* C11: when the entity of the active state requests a transition named T
   and the current state has no entry in the transition table, the update
   resolves T itself as the next state if T is a name of the states map
   (the machine enters state T, or completes with T when T is also an ending
   state), and otherwise throws "Cannot find transition for state" naming
   the current state; the request is never ignored. *)
C11_DirectJump ==
  [][/\ lastOp'.op = "sm.update" /\ sm.state # 0
     /\ sm.stateName \notin DOMAIN sm.transitions
     /\ Truthy(lastOp'.a)
     => LET T == SMRequestedName(lastOp'.a)
        IN IF T.type = "string" /\ T.val \in DOMAIN SMStates
           THEN /\ thrown' = "none" /\ lastOp'.b = T.val
                /\ IF T.val \in SMEndingStates
                   THEN sm'.requestedTransition = Str(T.val)
                   ELSE /\ sm'.stateName = T.val /\ sm'.state = SMStates[T.val]
                        /\ kids'[SMStates[T.val]].isSetup
                        /\ ~kids'[sm.state].isSetup
           ELSE thrown' = "Cannot find transition for state '" \o sm.stateName \o "'"]_vars

\* state "flash" has no table entry; its entity asked for "middle"
C11_Witness ==
  /\ lastOp.op = "sm.update" /\ lastOp.a = Str("middle") /\ thrown = "none"
  /\ sm.visitedStates = <<"start", "flash", "middle">>
  /\ sm.stateName = "middle" /\ kids[SMStates["middle"]].isSetup

(* C12: in a state whose table entry was built by makeTransitionTable from a
   flat map M, a request of the state's entity with name T and params P
   makes the machine enter the state M[T] names when T is a key of M (or
   complete with it when it is an ending state), with params P when M[T] is
   a string and the descriptor's params when M[T] is {name, params}; when T
   is not a key of M the update throws "Cannot find state T". *)
C12_TransitionTable ==
  [][/\ lastOp'.op = "sm.update" /\ sm.state # 0
     /\ sm.stateName \in DOMAIN sm.transitions
     /\ sm.transitions[sm.stateName].kind = "function"
     /\ Truthy(lastOp'.a)
     => LET T == SMRequestedName(lastOp'.a)
            P == SMRequestedParams(lastOp'.a)
            M == sm.transitions[sm.stateName].table
        IN IF T.type = "string" /\ T.val \in DOMAIN M
           THEN LET d == M[T.val]
                IN /\ d.type \in {"string", "object"} /\ d.val \in SMEndingStates =>
                        thrown' = "none" /\ sm'.requestedTransition = Str(d.val)
                   /\ d.type \in {"string", "object"} /\ d.val \in DOMAIN SMStates \ SMEndingStates =>
                        /\ thrown' = "none"
                        /\ sm'.stateName = d.val /\ sm'.state = SMStates[d.val]
                        /\ kids'[SMStates[d.val]].isSetup
                        /\ sm'.stateParams = IF d.type = "string" THEN P ELSE d.params
           ELSE /\ thrown' = "Cannot find state " \o T.val
                /\ sm' = sm]_vars

\* "start" completed with {name: "win", params: "p1"}; its table says win: "middle"
C12_Witness ==
  /\ lastOp.op = "sm.update" /\ lastOp.a = Obj("win", "p1") /\ thrown = "none"
  /\ sm.visitedStates = <<"start", "middle">>
  /\ sm.stateName = "middle" /\ sm.stateParams = "p1"

\* the lifecycle calls of the given kind among the calls of the last method
CallsOf(kind) == {k \in 1..Len(calls) : calls[k][1] = kind}

(* C13 as stated: once the machine has completed, the state that was exited
   has been torn down, so no state entity is set up. *)
C13_AsStated ==
  sm.isSetup /\ lastOp.op = "sm.update" /\ lastOp.b \in SMEndingStates /\ thrown = "none"
    => \A id \in SMKidIds : ~kids[id].isSetup

(* C13, amended: when the resolved next state is an ending state, the
   machine completes without setting up any entity (also when the states map
   has an entry under that name) and without calling teardown in that step;
   the entity of the state that was active is left as it is, still the
   machine's state, and the machine's own teardown is what tears it down. *)
C13_EndingState ==
  /\ [][lastOp'.op = "sm.update" /\ lastOp'.b \in SMEndingStates =>
          /\ calls' = << <<"update", sm.state>> >>
          /\ sm'.state = sm.state /\ sm'.stateName = sm.stateName
          /\ \A id \in SMKidIds : kids'[id].isSetup = kids[id].isSetup]_vars
  /\ [][lastOp'.op = "sm.setup" /\ sm.startingState \in SMEndingStates =>
          /\ calls' = <<>>
          /\ sm'.state = sm.state
          /\ \A id \in SMKidIds : kids'[id].isSetup = kids[id].isSetup]_vars
  /\ [][lastOp'.op = "sm.teardown" /\ sm.state # 0 =>
          /\ calls' = << <<"teardown", sm.state>> >>
          /\ ~kids'[sm.state].isSetup /\ sm'.state = 0]_vars

\* "middle" resolved "end": its entity is still set up, the entity stored
\* under "end" is not
C13_Witness ==
  /\ sm.isSetup /\ lastOp.op = "sm.update" /\ lastOp.b = "end" /\ thrown = "none"
  /\ sm.requestedTransition = Str("end")
  /\ sm.stateName = "middle" /\ sm.state = SMStates["middle"]
  /\ kids[SMStates["middle"]].isSetup /\ ~kids[SMStates["end"]].isSetup

(* C14 as stated: every transition the machine makes, one to an ending state
   included, emits one stateChange notification. *)
C14_AsStated ==
  lastOp.op = "sm.update" /\ lastOp.b # "" /\ thrown = "none"
    => Cardinality(CallsOf("stateChange")) = 1

(* C14, amended: every transition to a non-ending state, the entry into the
   starting state at setup included, tears down the entity of the old state
   (if there is one), sets up the entity of the new state and then emits one
   stateChange notification carrying (newState, newParams, oldState,
   oldParams), oldState and oldParams being the machine's stateName and
   stateParams just before; a transition to an ending state emits none. *)
C14_StateChange ==
  /\ [][lastOp'.op = "sm.update" /\ thrown' = "none" =>
          IF lastOp'.b # "" /\ lastOp'.b \notin SMEndingStates
          THEN calls' = << <<"update", sm.state>>,
                           <<"teardown", sm.state>>,
                           <<"setup", SMStates[lastOp'.b]>>,
                           StateChange(lastOp'.b, sm'.stateParams, sm.stateName, sm.stateParams) >>
          ELSE CallsOf("stateChange")' = {}]_vars
  /\ [][lastOp'.op = "sm.setup" /\ thrown' = "none" =>
          IF sm.startingState \notin SMEndingStates
          THEN calls' = (IF sm.state # 0 THEN << <<"teardown", sm.state>> >> ELSE <<>>)
                        \o << <<"setup", SMStates[sm.startingState]>>,
                              StateChange(sm.startingState, sm'.stateParams, sm.stateName, sm.stateParams) >>
          ELSE CallsOf("stateChange")' = {}]_vars
  /\ [][lastOp'.op \notin {"sm.update", "sm.setup"} \/ thrown' # "none" =>
          CallsOf("stateChange")' = {}]_vars

\* "start" completed with {name: "win", params: "p1"} and the machine moved to "middle"
C14_Witness ==
  /\ lastOp.op = "sm.update" /\ thrown = "none"
  /\ calls = << <<"update", 1>>, <<"teardown", 1>>, <<"setup", 2>>,
                StateChange("middle", "p1", "start", "p0") >>

(* C15: each contract violation is reported with console.error and the
   call still proceeds: a setup on a set-up entity runs the hook (which
   registers its listener) and leaves isSetup true, the config stored and
   requestedTransition cleared; an update or onSignal on an entity that is
   not set up runs and changes no lifecycle field; a teardown on an entity
   that is not set up releases the listeners and leaves isSetup false. *)
C15_ViolationsProceed ==
  /\ [][lastOp'.op = "setup" /\ ent.isSetup =>
          /\ reports' = <<"setup() called twice">>
          /\ thrown' = "none"
          /\ ent'.isSetup /\ ent'.requestedTransition = Null /\ ent'.entityConfig = "config"
          /\ lastOp'.a = "isSetup"
          /\ ent'.eventListeners = Append(ent.eventListeners, Listener("bus", "go", "_handleEvent"))]_vars
  /\ [][lastOp'.op = "update" /\ ~ent.isSetup =>
          /\ reports' = <<"update() called before setup()">>
          /\ thrown' = "none"
          /\ lastOp'.a = "notSetup"
          /\ ~ent'.isSetup /\ ent'.requestedTransition = ent.requestedTransition]_vars
  /\ [][lastOp'.op = "teardown" /\ ~ent.isSetup =>
          /\ reports' = <<"teardown() called before setup()">>
          /\ thrown' = "none"
          /\ lastOp'.a = "notSetup"
          /\ ~ent'.isSetup /\ ent'.entityConfig = "null"
          /\ ent'.eventListeners = <<>> /\ subs' = <<>>]_vars
  /\ [][lastOp'.op = "onSignal" /\ ~ent.isSetup =>
          /\ reports' = <<"onSignal() called before setup()">>
          /\ thrown' = "none"
          /\ ~ent'.isSetup /\ ent'.requestedTransition = ent.requestedTransition]_vars

\* setup was called twice, the second time with two listeners registered
C15_Witness ==
  /\ lastOp.op = "setup" /\ reports = <<"setup() called twice">>
  /\ ent.isSetup /\ ent.requestedTransition = Null
  /\ Len(ent.eventListeners) = 2

(* C16: removeEntity of an entity that is not in the list of a
   ParallelEntity, a DeflatingCompositeEntity or a SwitchingEntity, and
   switchToEntity of an entity that is not in the list, throw; afterwards
   the composite (its lists, active flags and active index) is as before
   and no child has been set up or torn down. *)
C16_MisuseThrows ==
  /\ [][lastOp'.op = "par.removeEntity" /\ IndexOf(par.entities, lastOp'.a) = 0 =>
          thrown' = "Cannot find entity to remove"]_vars
  /\ [][lastOp'.op = "defl.removeEntity" /\ IndexOf(defl.entities, lastOp'.a) = 0 =>
          thrown' = "Cannot find entity to remove"]_vars
  /\ [][/\ lastOp'.op \in {"sw.removeEntity", "sw.switchToEntity"}
        /\ lastOp'.a # 0 /\ IndexOf(sw.entities, lastOp'.a) = 0
        => thrown' = "Cannot find entity"]_vars
  /\ [][thrown' \in {"Cannot find entity to remove", "Cannot find entity"} =>
          /\ par' = par /\ defl' = defl /\ sw' = sw
          /\ kids' = kids /\ calls' = <<>>]_vars

\* a set-up SwitchingEntity with an active child was asked to switch to an
\* entity it does not hold
C16_Witness ==
  /\ lastOp.op = "sw.switchToEntity" /\ thrown = "Cannot find entity"
  /\ sw.isSetup /\ sw.activeEntityIndex = 0 /\ sw.entities = <<1>>
  /\ kids[1].isSetup /\ calls = <<>>

\* the children that are set up
KidsSetUp == {id \in DOMAIN kids : kids[id].isSetup}

\* one child is set up, the one at currentEntityIndex; none once the sequence
\* has completed
SeqOneChildSetUp ==
  IF Truthy(seq.requestedTransition)
  THEN KidsSetUp = {}
  ELSE /\ seq.currentEntityIndex < Len(seq.entities)
       /\ KidsSetUp = {seq.entities[seq.currentEntityIndex + 1]}
       /\ seq.currentEntity = seq.entities[seq.currentEntityIndex + 1]

(* C17 as stated: in a sequence set up with no child set up and updated
   since, exactly one child is set up, the one at currentEntityIndex, also
   after the sequence has completed. *)
C17_AsStated ==
  hist.plain /\ seq.isSetup =>
    /\ seq.currentEntityIndex < Len(seq.entities)
    /\ KidsSetUp = {seq.entities[seq.currentEntityIndex + 1]}

(* C17, amended: between the lifecycle calls on an EntitySequence that was
   set up while none of its children was, for every sequence of update,
   skip, restart, onSignal and addEntity calls, exactly one child is set up,
   the one at currentEntityIndex, as long as the sequence has not completed;
   once it has completed no child is set up, until restart(). *)
C17_OneChildSetUp ==
  /\ [][~seq.isSetup /\ KidsSetUp = {} /\ lastOp'.op = "seq.setup" => SeqOneChildSetUp']_vars
  /\ [][/\ seq.isSetup /\ SeqOneChildSetUp
        /\ lastOp'.op \in {"seq.update", "seq.skip", "seq.restart", "seq.onSignal",
                           "seq.addEntity", "done"}
        => seq'.isSetup /\ SeqOneChildSetUp']_vars

\* the first child was skipped: the second one is set up, alone
C17_Witness ==
  /\ seq.isSetup /\ lastOp.op = "seq.skip"
  /\ hist.calls = << <<"setup", 1>>, <<"teardown", 1>>, <<"setup", 2>> >>
  /\ seq.currentEntityIndex = 1 /\ seq.currentEntity = 2
  /\ KidsSetUp = {2}

(* C18: skip() on a set-up EntitySequence that has not completed advances
   at once, whatever the current child has requested: the current child is
   torn down and the next one set up (entity 0 when a looping sequence is at
   its last child); at the last child of a non-looping sequence the sequence
   completes with the transition {name: "skip"}.  skip() on a completed
   sequence does nothing. *)
C18_Skip ==
  [][seq.isSetup /\ lastOp'.op = "seq.skip" =>
       LET i == seq.currentEntityIndex
           n == Len(seq.entities)
           next == IF i < n - 1 THEN i + 1 ELSE 0
       IN IF Truthy(seq.requestedTransition)
          THEN seq' = seq /\ kids' = kids /\ calls' = <<>>
          ELSE IF i < n - 1 \/ seq.loop
          THEN /\ calls' = << <<"teardown", seq.currentEntity>>, <<"setup", seq.entities[next + 1]>> >>
               /\ seq'.currentEntityIndex = next
               /\ seq'.currentEntity = seq.entities[next + 1]
               /\ kids'[seq.entities[next + 1]].isSetup
               /\ seq'.requestedTransition = seq.requestedTransition
          ELSE /\ calls' = << <<"teardown", seq.currentEntity>> >>
               /\ ~kids'[seq.currentEntity].isSetup
               /\ seq'.currentEntityIndex = i
               /\ seq'.requestedTransition = Obj("skip", "")]_vars

\* the only child of a non-looping sequence was skipped before it requested anything
C18_Witness ==
  /\ seq.isSetup /\ ~seq.loop /\ lastOp.op = "seq.skip"
  /\ seq.entities = <<1>> /\ ~Truthy(kids[1].requestedTransition)
  /\ calls = << <<"teardown", 1>> >>
  /\ seq.requestedTransition = Obj("skip", "")

\* what restart() does from the current state: the calls it makes on the
\* children, and where it leaves the sequence
SeqRestarted ==
  /\ seq'.currentEntityIndex = 0 /\ seq'.currentEntity = seq.entities[1]
  /\ kids'[seq.entities[1]].isSetup
  /\ seq.currentEntity # seq.entities[1] => ~kids'[seq.currentEntity].isSetup
  /\ ~Truthy(seq'.requestedTransition)

(* C19 as stated: after a "reset" signal in any state of a set-up sequence,
   a completed one included, currentEntityIndex is 0, entity 0 is set up and
   requestedTransition is falsy. *)
C19_AsStated ==
  seq.isSetup /\ lastOp.op = "seq.onSignal" /\ lastOp.a = "reset" /\ thrown = "none" =>
    /\ seq.currentEntityIndex = 0
    /\ kids[seq.entities[1]].isSetup
    /\ ~Truthy(seq.requestedTransition)

(* C19, amended: after restart() on a set-up EntitySequence, mid-sequence
   or completed, and after a "reset" signal received while the sequence has
   not completed, currentEntityIndex is 0, entity 0 is set up, the
   previously current child is torn down and requestedTransition is falsy;
   a completed sequence ignores the "reset" signal as it does every signal. *)
C19_Restart ==
  /\ [][seq.isSetup /\ lastOp'.op = "seq.restart" =>
          /\ SeqRestarted
          /\ calls' = (IF kids[seq.currentEntity].isSetup
                       THEN << <<"teardown", seq.currentEntity>> >> ELSE <<>>)
                      \o << <<"setup", seq.entities[1]>> >>]_vars
  /\ [][seq.isSetup /\ lastOp'.op = "seq.onSignal" /\ lastOp'.a = "reset" =>
          IF Truthy(seq.requestedTransition)
          THEN seq' = seq /\ kids' = kids /\ calls' = <<>>
          ELSE /\ SeqRestarted
               /\ calls' = << <<"onSignal", seq.currentEntity>>,
                              <<"teardown", seq.currentEntity>>,
                              <<"setup", seq.entities[1]>> >>]_vars

\* a "reset" signal reached the sequence while its second child was current
C19_Witness ==
  /\ seq.isSetup /\ lastOp.op = "seq.onSignal" /\ lastOp.a = "reset"
  /\ calls = << <<"onSignal", 2>>, <<"teardown", 2>>, <<"setup", 1>> >>
  /\ seq.currentEntityIndex = 0 /\ kids[1].isSetup /\ ~kids[2].isSetup
  /\ ~Truthy(seq.requestedTransition)

\* child id got the signal in the last method call
GotSignal(id) == \E k \in 1..Len(calls) : calls[k] = <<"onSignal", id>>

\* every one of the given children that is set up gets the signal in this step
SignalReaches(children) == \A id \in children : kids[id].isSetup => GotSignal(id)'

\* the elements of a sequence
Elements(s) == {s[k] : k \in 1..Len(s)}

\* the children of the SwitchingEntity that are set up are its active child, if any
SwOneChildSetUp ==
  Elements(sw.entities) \cap KidsSetUp =
    IF SwHasIndex(sw, sw.activeEntityIndex) THEN {sw.entities[sw.activeEntityIndex + 1]} ELSE {}

(* C20: a signal delivered through onSignal to a set-up composite reaches
   every child of the composite that is set up at that moment, for each of
   ParallelEntity, DeflatingCompositeEntity, SwitchingEntity, Alternative,
   EntitySequence and StateMachine (a SwitchingEntity and an EntitySequence
   taken in the states where the child they hold as current is the one that
   is set up). *)
C20_SignalReachesChildren ==
  /\ [][lastOp'.op = "par.onSignal" /\ par.isSetup => SignalReaches(Elements(par.entities))]_vars
  /\ [][lastOp'.op = "defl.onSignal" /\ defl.isSetup => SignalReaches(Elements(defl.entities))]_vars
  /\ [][lastOp'.op = "sw.onSignal" /\ sw.isSetup /\ SwOneChildSetUp =>
          SignalReaches(Elements(sw.entities))]_vars
  /\ [][lastOp'.op = "alt.onSignal" /\ alt.isSetup =>
          SignalReaches({alt.entityPairs[k].entity : k \in 1..Len(alt.entityPairs)})]_vars
  /\ [][lastOp'.op = "seq.onSignal" /\ seq.isSetup /\ SeqOneChildSetUp => SignalReaches(Elements(seq.entities))]_vars
  /\ [][lastOp'.op = "sm.onSignal" /\ sm.isSetup => SignalReaches(SMKidIds)]_vars

\* the entities a FunctionalEntity was built with: the constructor left each
\* of them in the config slot of a null entry
FnListed ==
  {id \in KidIds : \E k \in 1..Len(par.entities) :
                     par.entities[k] = 0 /\ par.entityConfigs[k] = AsConfig(id)}

(* C21: a FunctionalEntity built with a list of child entities behaves as a
   ParallelEntity over them: once it has been set up, each listed entity is
   one of its entities, is flagged active and has been set up, and the setup
   did not throw. *)
C21_FunctionalAsParallel ==
  lastOp.op = "fn.setup" =>
    /\ thrown = "none"
    /\ \A id \in FnListed :
         /\ IndexOf(par.entities, id) # 0
         /\ kids[id].isSetup

(* C22: a Decision calls its predicate exactly once per setup and never in
   another method, and immediately after setup it has completed, its
   requestedTransition being the predicate's boolean result, whether that
   result is true or false. *)
C22_Decision ==
  /\ lastOp.op = "dec.setup" =>
       /\ Cardinality(CallsOf("f")) = 1
       /\ hist.evaluations = hist.setups
       /\ ent.requestedTransition = Bool(lastOp.a)
       /\ Truthy(ent.requestedTransition)
  /\ lastOp.op \in {"dec.update", "dec.teardown", "dec.onSignal"} => CallsOf("f") = {}

\* the teardown calls removeAllEntities owes: one per child that is set up, in list order
RECURSIVE TeardownsOwed(_, _)
TeardownsOwed(entities, i) ==
  IF i > Len(entities) THEN <<>>
  ELSE IF kids[entities[i]].isSetup
  THEN <<<<"teardown", entities[i]>>>> \o TeardownsOwed(entities, i + 1)
  ELSE TeardownsOwed(entities, i + 1)

\* the children of the ParallelEntity other than the given ones keep their
\* entity, config and active flag, and their own state
ParOthersKept(gone) ==
  /\ \A k \in 1..Len(par.entities) : par.entities[k] \notin gone =>
       \E j \in 1..Len(par'.entities) :
         /\ par'.entities[j] = par.entities[k]
         /\ par'.entityConfigs[j] = par.entityConfigs[k]
         /\ par'.entityIsActive[j] = par.entityIsActive[k]
  /\ \A id \in KidIds \ gone : kids'[id] = kids[id]

(* C23: on a set-up ParallelEntity, addEntity sets up the new child at once
   with its resolved config and flags it active; removeEntity of a present
   child and removeAllEntities call teardown on each removed child that is
   set up, and on nothing else, and afterwards the removed children are in
   none of the three lists, while the other children keep their entity,
   config and active flag. *)
C23_AddAndRemove ==
  [][par.isSetup =>
       /\ lastOp'.op = "par.addEntity" =>
            LET id == lastOp'.a
                override == OverrideOf(id)
            IN /\ par'.entities = Append(par.entities, id)
               /\ par'.entityConfigs = Append(par.entityConfigs, override)
               /\ par'.entityIsActive = Append(par.entityIsActive, TRUE)
               /\ calls' = <<<<"setup", id>>>>
               /\ kids'[id].isSetup
               /\ kids'[id].entityConfig = (IF override = "null" THEN par.entityConfig
                                            ELSE IF override = "extend" THEN par.entityConfig \o "+ext"
                                            ELSE override)
               /\ ParOthersKept({id})
       /\ lastOp'.op = "par.removeEntity" /\ IndexOf(par.entities, lastOp'.a) # 0 =>
            LET id == lastOp'.a
            IN /\ calls' = (IF kids[id].isSetup THEN <<<<"teardown", id>>>> ELSE <<>>)
               /\ ~kids'[id].isSetup
               /\ IndexOf(par'.entities, id) = 0
               /\ Len(par'.entities) = Len(par.entities) - 1
               /\ Len(par'.entityConfigs) = Len(par'.entities)
               /\ Len(par'.entityIsActive) = Len(par'.entities)
               /\ ParOthersKept({id})
       /\ lastOp'.op = "par.removeAllEntities" =>
            /\ calls' = TeardownsOwed(par.entities, 1)
            /\ \A id \in KidIds : ~kids'[id].isSetup
            /\ par'.entities = <<>> /\ par'.entityConfigs = <<>> /\ par'.entityIsActive = <<>>
            /\ ParOthersKept(Elements(par.entities))
  ]_vars

\* a set-up ParallelEntity has removed all its children, two of them set up,
\* one already completed
C23_Witness ==
  /\ par.isSetup /\ lastOp.op = "par.removeAllEntities"
  /\ Len(calls) = 2
  /\ \E id \in KidIds : Truthy(kids[id].requestedTransition) /\ ~kids[id].isSetup /\ CallsOf("teardown") # {}
                        /\ \A k \in 1..Len(calls) : calls[k][2] # id

(* C24: _off(emitter, event), called without a callback, removes exactly the
   listeners this entity registered for that emitter and that event: the
   entity's listeners for the same event on other emitters, and for other
   events on the same emitter, stay in the registry and subscribed. *)
C24_OffEmitterEvent ==
  [][lastOp'.op = "_off" =>
       LET args == lastOp'.a
           Stays(l) == ~(l.emitter = args[1] /\ l.event = args[2])
       IN args[1] # "none" /\ args[2] # "none" /\ args[3] = "none" =>
            /\ ent'.eventListeners = SelectSeq(ent.eventListeners, Stays)
            /\ subs' = SelectSeq(subs, Stays)
  ]_vars

(* C25: when an update of a set-up StateMachine raises a fatal resolution
   error, the machine is left as it was before the update: the entity of the
   current state is still set up, and stateName, stateParams, visitedStates
   and requestedTransition are unchanged. *)
C25_FatalLeavesMachine ==
  [][/\ sm.isSetup /\ sm.state # 0 /\ kids[sm.state].isSetup
     /\ lastOp'.op = "sm.update" /\ thrown' # "none"
     => /\ kids'[sm.state].isSetup
        /\ sm'.state = sm.state
        /\ sm'.stateName = sm.stateName
        /\ sm'.stateParams = sm.stateParams
        /\ sm'.visitedStates = sm.visitedStates
        /\ sm'.requestedTransition = sm.requestedTransition
  ]_vars

\* the entity activeEntityIndex names, 0 if none
SwActiveEntity ==
  IF SwHasIndex(sw, sw.activeEntityIndex) THEN sw.entities[sw.activeEntityIndex + 1] ELSE 0

\* activeEntityIndex is -1 or names a child, and the entities that are set
\* up are the child it names, if any
SwIndexValid ==
  /\ sw.activeEntityIndex = -1 \/ SwHasIndex(sw, sw.activeEntityIndex)
  /\ KidsSetUp = (IF SwActiveEntity = 0 THEN {} ELSE {SwActiveEntity})

(* C26: in a set-up SwitchingEntity every addEntity, removeEntity,
   removeAllEntities, switchToIndex and switchToEntity call that returns
   keeps activeEntityIndex -1 or a valid index into entities, with the child
   at that index set up and no other child set up; and removing a child
   other than the active one leaves the same child entity active. *)
C26_IndexStaysValid ==
  [][/\ sw.isSetup /\ SwIndexValid
     /\ lastOp'.op \in {"sw.addEntity", "sw.removeEntity", "sw.removeAllEntities",
                        "sw.switchToIndex", "sw.switchToEntity"}
     /\ thrown' = "none"
     => /\ SwIndexValid'
        /\ lastOp'.op = "sw.removeEntity" /\ lastOp'.a # SwActiveEntity
             => SwActiveEntity' = SwActiveEntity
  ]_vars

\* a lifecycle method complained that it was called on an entity that is not set up
CalledBeforeSetup ==
  \E k \in 1..Len(reports) :
    reports[k] \in {"update() called before setup()", "teardown() called before setup()"}

(* C27: a set-up EntitySequence never calls update or teardown on a child
   that is not set up, in any update, skip, restart or onSignal call,
   including the update calls made after the sequence has completed. *)
C27_NoCallOnChildNotSetUp ==
  [][seq.isSetup /\ lastOp'.op \in {"seq.update", "seq.skip", "seq.restart", "seq.onSignal"}
     => ~CalledBeforeSetup']_vars

(* C28: once a set-up StateMachine has completed by reaching an ending
   state, a further update changes nothing: requestedTransition,
   visitedStates, stateName and the state entity stay as they were, the
   entity stays set up, and no stateChange notification is emitted. *)
C28_UpdateAfterCompletion ==
  [][/\ sm.isSetup /\ sm.state # 0
     /\ sm.requestedTransition.type = "string" /\ sm.requestedTransition.val \in SMEndingStates
     /\ lastOp'.op = "sm.update"
     => /\ sm'.requestedTransition = sm.requestedTransition
        /\ sm'.visitedStates = sm.visitedStates
        /\ sm'.stateName = sm.stateName
        /\ sm'.state = sm.state
        /\ kids'[sm.state].isSetup = kids[sm.state].isSetup
        /\ \A k \in 1..Len(calls') : calls'[k][1] # "stateChange"
  ]_vars

(* C29: once the requestedTransition of a set-up Alternative has become
   truthy, every later update leaves it at the same value, whichever
   children complete afterwards. *)
C29_TransitionStays ==
  [][alt.isSetup /\ Truthy(alt.requestedTransition) /\ lastOp'.op = "alt.update"
     => alt'.requestedTransition = alt.requestedTransition]_vars

====
